---- MODULE Spec2Model ----
(***************************************************************************)
(* Telemetry core of the Unified Engine: the IMU ring buffer and the       *)
(* signal journal of src/runtime/bus/journal.ts, with the envelope         *)
(* validator of packages/types/src/event.ts.                               *)
(*                                                                         *)
(* SpecBuffer  drives one IMURingBuffer instance through push, snapshot,   *)
(*             latest and clear.                                           *)
(* SpecJournal drives one SignalJournal instance (one log file) through    *)
(*             append, readAll and clear.                                  *)
(* SpecReadFrames   calls readFrames of scripts/replay.ts on any file.     *)
(* SpecReplay       runs sendFrames against an arbitrary endpoint that may *)
(*                  send any message and report errors.                    *)
(* SpecReplayServed runs sendFrames against the ingress server of          *)
(*                  services/telemetry/ws-server/index.ts, with fair       *)
(*                  event delivery and no connection error.                *)
(* SpecEndToEnd     runs readFrames and then sendFrames against the        *)
(*                  ingress server, as scripts/tests/test-replay.ts does.  *)
(* SpecIngress      drives the ingress server with arbitrary clients.      *)
(***************************************************************************)
EXTENDS Integers, Sequences, FiniteSets, TLC

\* ------------------------------------------------------------------------
\* Bounds of the model
\* ------------------------------------------------------------------------
MaxCapacity == 3      \* capacities 1..MaxCapacity are constructed
MaxTs == 2            \* finite timestamps are 0..MaxTs
MaxOps == 4           \* calls made on the ring buffer
MaxJournalOps == 4    \* calls made on the journal
MaxNum == 1           \* finite numbers carried by a payload are 0..MaxNum
MaxFileTokens == 4    \* pieces (documents, line breaks) of a replay file
MaxReadOps == 2       \* readFrames calls made on one file
MaxFrames == 3        \* length of the frame list given to sendFrames
MaxEnvMsgs == 3       \* messages an arbitrary endpoint sends to the client
MaxMsgs == 3          \* messages arbitrary clients send to the ingress server
MaxValidatorOps == 2  \* assertValid calls made
MaxAliasOps == 4      \* calls and caller mutations on buffer objects
MaxCtorOps == 2       \* calls made on a buffer after its construction
MaxFsOps == 2         \* calls made on a journal opened on a file found on disk
MaxPortChars == 3     \* length of the text of the PORT environment variable
MaxInstOps == 3       \* calls made through two journals on one path
MaxConcurrentFrames == 2  \* length of the frame list of each of two concurrent calls

VARIABLES
    capacity,     \* IMURingBuffer.capacity
    buffer,       \* IMURingBuffer.buffer, head first
    bcall,        \* the last call made on the buffer and its outcome
    attempted,    \* history: every sample passed to push since construction
    pushed,       \* history: samples pushed successfully since construction/clear
    everCleared,  \* history: clear() was called on the buffer
    ops,          \* number of buffer calls made
    file,         \* the journal's log file: Absent, or its content
    jcall,        \* the last call made on the journal and its outcome
    appended,     \* history: entries appended successfully since the file was absent
    jops,         \* number of journal calls made
    rcall,        \* the last readFrames call and its outcome
    rops,         \* number of readFrames calls made
    phase,        \* replay: "idle" before sendFrames is called, then "sending"
    frames,       \* sendFrames: the frames argument
    sock,         \* sendFrames: state of its WebSocket
    sent,         \* history: texts passed to socket.send, in order
    acks,         \* sendFrames: acknowledgements
    outcome,      \* sendFrames: state of the promise it returns
    rerr,         \* sendFrames: the error the promise rejected with
    reported,     \* history: errors the connection reported, in order
    connections,  \* history: number of WebSockets sendFrames created
    envMsgs,      \* number of messages an arbitrary endpoint has sent
    opens,        \* history: number of "open" events of the socket
    inbox,        \* per connection: texts in flight to the ingress server
    outbox,       \* per connection: texts in flight to the client
    arrived,      \* history, per connection: texts put on the wire by the client
    received,     \* history, per connection: texts the server handled
    responses,    \* history, per connection: texts the server sent
    connState,    \* per connection: the server's side of the socket
    msgs,         \* number of messages arbitrary clients have sent
    vcall,        \* the last assertValid call and its outcome
    vops,         \* number of assertValid calls made
    heap,         \* sample objects by identity: heap[id] is the object's value
    refs,         \* IMURingBuffer.buffer as object identities, head first
    returned,     \* the array a snapshot() call returned, as object identities
    aops,         \* number of calls and caller mutations on buffer objects
    acall,        \* the last of them: "push", "snapshot" or "mutate"
    ctor,         \* the IMURingBuffer constructor call and its outcome
    dirExists,    \* the directory of the journal's log path exists
    jctor,        \* "none" before the SignalJournal is constructed
    env,          \* process.env.PORT when the server module is loaded
    startup,      \* the startServer call and its outcome
    jinst,        \* the SignalJournal instance that made the last call
    r2            \* a second sendFrames call: its frames, socket and promise

bvars == <<capacity, buffer, bcall, attempted, pushed, everCleared, ops>>
jvars == <<file, jcall, appended, jops>>
fvars == <<rcall, rops>>
rvars == <<phase, frames, sock, sent, acks, outcome, rerr, reported,
           connections, envMsgs, opens>>
svars == <<inbox, outbox, arrived, received, responses, connState, msgs>>
vvars == <<vcall, vops>>
avars == <<heap, refs, returned, aops, acall>>
cvars == <<ctor>>
dvars == <<dirExists, jctor>>
xvars == <<env, startup, jinst, r2>>
ovars == <<vcall, vops, heap, refs, returned, aops, acall, ctor, dirExists, jctor,
           env, startup, jinst, r2>>
vars == <<capacity, buffer, bcall, attempted, pushed, everCleared, ops,
          file, jcall, appended, jops,
          rcall, rops,
          phase, frames, sock, sent, acks, outcome, rerr, reported,
          connections, envMsgs, opens,
          inbox, outbox, arrived, received, responses, connState, msgs,
          vcall, vops, heap, refs, returned, aops, acall, ctor, dirExists, jctor,
          env, startup, jinst, r2>>

\* ------------------------------------------------------------------------
\* JavaScript numbers: finite values and NaN, with the IEEE comparison
\* ------------------------------------------------------------------------
Num(n) == [nan |-> FALSE, v |-> n]
NaN == [nan |-> TRUE, v |-> 0]

\* a < b on JavaScript numbers: false whenever an operand is NaN
Lt(a, b) == ~a.nan /\ ~b.nan /\ a.v < b.v

\* a <= b on JavaScript numbers: false whenever an operand is NaN
Le(a, b) == ~a.nan /\ ~b.nan /\ a.v <= b.v

Min(a, b) == IF a < b THEN a ELSE b

\* ------------------------------------------------------------------------
\* IMUSample and IMURingBuffer
\* ------------------------------------------------------------------------
TsValues == {Num(n) : n \in 0..MaxTs} \cup {NaN}
Quaternions == {"qa", "qb"}
IMUSample == [ts : TsValues, quaternion : Quaternions]
NoSample == [ts |-> NaN, quaternion |-> "none"]

\* Array.prototype.shift: drops the head
Shift(buf) == SubSeq(buf, 2, Len(buf))

\* push with the eviction dropping the tail instead of the head
IMURingBuffer_push_evictNewest(buf, cap, sample) ==
    IF Len(buf) > 0 /\ Lt(sample.ts, buf[Len(buf)].ts)
    THEN [result |-> "error", buffer |-> buf]
    ELSE LET grown == Append(buf, sample)
         IN  [result |-> "ok",
              buffer |-> IF Len(grown) > cap
                         THEN SubSeq(grown, 1, Len(grown) - 1) ELSE grown]

\* push with the order check made after the sample is stored
IMURingBuffer_push_lateCheck(buf, cap, sample) ==
    LET grown == Append(buf, sample)
        kept == IF Len(grown) > cap THEN Shift(grown) ELSE grown
    IN  IF Len(buf) > 0 /\ Lt(sample.ts, buf[Len(buf)].ts)
        THEN [result |-> "error", buffer |-> kept]
        ELSE [result |-> "ok", buffer |-> kept]

\* push with the eviction test off by one (length > capacity + 1)
IMURingBuffer_push_noEvict(buf, cap, sample) ==
    IF Len(buf) > 0 /\ Lt(sample.ts, buf[Len(buf)].ts)
    THEN [result |-> "error", buffer |-> buf]
    ELSE LET grown == Append(buf, sample)
         IN  [result |-> "ok",
              buffer |-> IF Len(grown) > cap + 1 THEN Shift(grown) ELSE grown]

\* push that also rejects a sample whose ts equals the tail's
IMURingBuffer_push_rejectTies(buf, cap, sample) ==
    IF Len(buf) > 0 /\ Le(sample.ts, buf[Len(buf)].ts)
    THEN [result |-> "error", buffer |-> buf]
    ELSE LET grown == Append(buf, sample)
         IN  [result |-> "ok",
              buffer |-> IF Len(grown) > cap THEN Shift(grown) ELSE grown]

\* IMURingBuffer.push: throws on a sample older than the tail, otherwise
\* appends and evicts the head when the length exceeds the capacity
IMURingBuffer_push(buf, cap, sample) ==
    IF Len(buf) > 0 /\ Lt(sample.ts, buf[Len(buf)].ts)
    THEN [result |-> "error", buffer |-> buf]
    ELSE LET grown == Append(buf, sample)
         IN  [result |-> "ok",
              buffer |-> IF Len(grown) > cap THEN Shift(grown) ELSE grown]

\* IMURingBuffer.snapshot: the contents, oldest first
IMURingBuffer_snapshot(buf) == buf

\* latest returning the head
IMURingBuffer_latest_oldest(buf) == IF Len(buf) = 0 THEN NoSample ELSE buf[1]

\* IMURingBuffer.latest: the tail, or undefined (NoSample) when empty
IMURingBuffer_latest(buf) == IF Len(buf) = 0 THEN NoSample ELSE buf[Len(buf)]

\* clear that keeps the tail as the mark the next push is compared with
IMURingBuffer_clear_keepTail(buf) ==
    IF Len(buf) = 0 THEN << >> ELSE <<buf[Len(buf)]>>

\* IMURingBuffer.clear
IMURingBuffer_clear(buf) == << >>

NoBCall == [op |-> "none", arg |-> NoSample, result |-> "ok",
            seq |-> << >>, ret |-> NoSample]

BufferInit ==
    /\ capacity \in 1..MaxCapacity
    /\ buffer = << >>
    /\ bcall = NoBCall
    /\ attempted = << >>
    /\ pushed = << >>
    /\ everCleared = FALSE
    /\ ops = 0

Push(sample) ==
    /\ ops < MaxOps
    /\ LET r == IMURingBuffer_push(buffer, capacity, sample)
       IN  /\ buffer' = r.buffer
           /\ bcall' = [op |-> "push", arg |-> sample, result |-> r.result,
                        seq |-> << >>, ret |-> NoSample]
           /\ pushed' = IF r.result = "ok" THEN Append(pushed, sample) ELSE pushed
    /\ attempted' = Append(attempted, sample)
    /\ ops' = ops + 1
    /\ UNCHANGED <<capacity, everCleared>>
    /\ UNCHANGED <<jvars, fvars, rvars, svars>>
    /\ UNCHANGED ovars

Snapshot ==
    /\ ops < MaxOps
    /\ bcall' = [op |-> "snapshot", arg |-> NoSample, result |-> "ok",
                 seq |-> IMURingBuffer_snapshot(buffer), ret |-> NoSample]
    /\ ops' = ops + 1
    /\ UNCHANGED <<capacity, buffer, attempted, pushed, everCleared>>
    /\ UNCHANGED <<jvars, fvars, rvars, svars>>
    /\ UNCHANGED ovars

Latest ==
    /\ ops < MaxOps
    /\ bcall' = [op |-> "latest", arg |-> NoSample, result |-> "ok",
                 seq |-> << >>, ret |-> IMURingBuffer_latest(buffer)]
    /\ ops' = ops + 1
    /\ UNCHANGED <<capacity, buffer, attempted, pushed, everCleared>>
    /\ UNCHANGED <<jvars, fvars, rvars, svars>>
    /\ UNCHANGED ovars

Clear ==
    /\ ops < MaxOps
    /\ buffer' = IMURingBuffer_clear(buffer)
    /\ bcall' = [op |-> "clear", arg |-> NoSample, result |-> "ok",
                 seq |-> << >>, ret |-> NoSample]
    /\ pushed' = << >>
    /\ everCleared' = TRUE
    /\ ops' = ops + 1
    /\ UNCHANGED <<capacity, attempted>>
    /\ UNCHANGED <<jvars, fvars, rvars, svars>>
    /\ UNCHANGED ovars

PushAny == \E sample \in IMUSample : Push(sample)

BufferNext ==
    \/ PushAny
    \/ Snapshot
    \/ Latest
    \/ Clear

\* ------------------------------------------------------------------------
\* Envelopes and the validator (packages/types/src/event.ts)
\* ------------------------------------------------------------------------
\* JavaScript values a numeric field of a payload can hold
JsNum(n) == [t |-> "number", v |-> n]
JsNaN == [t |-> "NaN", v |-> 0]
JsNull == [t |-> "null", v |-> 0]
JsUndefined == [t |-> "undefined", v |-> 0]
JsValues == {JsNum(n) : n \in 0..MaxNum} \cup {JsNaN, JsNull, JsUndefined}

\* A payload is abstracted to the envelope type whose other required fields
\* it carries (shape) and to the value of its ZOOM_DELTA field
Shapes == {"EventEnvelope", "AgentFrame"}
Payloads == [shape : Shapes, zoom : JsValues]
Kinds == {"event.v1", "agent_frame.v1", "other.v9"}
JournalEntry == [kind : Kinds, payload : Payloads]
NoEntry == [kind |-> "none", payload |-> [shape |-> "none", zoom |-> JsUndefined]]

\* new Ajv({allErrors: true, strict: false}): strict: false turns the
\* strictNumbers option off, so "type": "number" is only typeof x == "number"
strictNumbers == FALSE

\* Ajv's check of "type": "number"
IsNumber(x) == x.t = "number" \/ (x.t = "NaN" /\ ~strictNumbers)

\* JavaScript values the INPUT_TRIGGER field of a payload can hold
JsBool == [t |-> "boolean", v |-> 0]
TriggerValues == {JsBool, JsUndefined, JsNum(0)}

\* payloads given with their INPUT_TRIGGER field as well; a payload of
\* Payloads stands for one whose INPUT_TRIGGER is a boolean
FullPayloads == [shape : Shapes, zoom : JsValues, trigger : TriggerValues]

\* where the minimal parameters sit in an envelope of the kind
ParamPath(kind) == IF kind = "event.v1" THEN "/payload" ELSE "/inputs"

\* one error object of a validate function
Item(path, message) == [instancePath |-> path, message |-> message]

\* The two schema documents, as the violations they find in a payload: the
\* fields of the kind's envelope type are required, and within the minimal
\* parameters ZOOM_DELTA is required and a number, INPUT_TRIGGER is
\* required and a boolean
SchemaErrors(kind, payload) ==
    IF ~(\/ kind = "event.v1" /\ payload.shape = "EventEnvelope"
         \/ kind = "agent_frame.v1" /\ payload.shape = "AgentFrame")
    THEN <<Item("", "must have required property")>>
    ELSE (IF payload.zoom.t = "undefined"
          THEN <<Item(ParamPath(kind), "must have required property 'ZOOM_DELTA'")>>
          ELSE IF ~IsNumber(payload.zoom)
               THEN <<Item(ParamPath(kind) \o "/ZOOM_DELTA", "must be number")>>
               ELSE << >>)
         \o
         (IF "trigger" \notin DOMAIN payload THEN << >>
          ELSE IF payload.trigger.t = "undefined"
               THEN <<Item(ParamPath(kind), "must have required property 'INPUT_TRIGGER'")>>
               ELSE IF payload.trigger.t # "boolean"
                    THEN <<Item(ParamPath(kind) \o "/INPUT_TRIGGER", "must be boolean")>>
                    ELSE << >>)

\* validate(payload) of a compiled schema, as a boolean
SchemaValid(kind, payload) == SchemaErrors(kind, payload) = << >>

\* new Ajv({allErrors: true, ...}): validation goes on after a violation
\* and validate.errors holds every one
allErrors == TRUE

\* validate.errors after validate(payload) returned false
ValidateErrors(kind, payload) ==
    LET all == SchemaErrors(kind, payload)
    IN  IF allErrors \/ all = << >> THEN all ELSE <<all[1]>>

\* a validator that falls back to the event schema for any other kind
validator_defaultEvent(kind) ==
    IF kind = "agent_frame.v1" THEN [result |-> "ok", schema |-> "agent_frame.v1"]
    ELSE [result |-> "ok", schema |-> "event.v1"]

\* validator(kind): the compiled schema of a known kind, or a throw
validator(kind) ==
    IF kind = "event.v1" THEN [result |-> "ok", schema |-> "event.v1"]
    ELSE IF kind = "agent_frame.v1" THEN [result |-> "ok", schema |-> "agent_frame.v1"]
    ELSE [result |-> "error", schema |-> "none"]

\* ------------------------------------------------------------------------
\* JSON text
\* ------------------------------------------------------------------------
\* JSON.stringify of a field value: a finite number is written as a number,
\* NaN and null as the literal null, and an undefined property is omitted
JsonStringifyValue(x) ==
    IF x.t = "number" THEN [lit |-> "number", v |-> x.v]
    ELSE IF x.t = "undefined" THEN [lit |-> "omitted", v |-> 0]
    ELSE [lit |-> "null", v |-> 0]

\* JSON.parse of a field: a number literal, null, or a property not there
JsonParseValue(j) ==
    IF j.lit = "number" THEN JsNum(j.v)
    ELSE IF j.lit = "omitted" THEN JsUndefined
    ELSE JsNull

\* JSON.stringify(entry): one line of text, no line break in it
JsonStringify(entry) ==
    [kind |-> entry.kind, shape |-> entry.payload.shape,
     zoom |-> JsonStringifyValue(entry.payload.zoom)]

\* JSON.parse(line) as JournalEntry
JsonParse(doc) ==
    [kind |-> doc.kind,
     payload |-> [shape |-> doc.shape, zoom |-> JsonParseValue(doc.zoom)]]

NoDoc == [kind |-> "none", shape |-> "none", zoom |-> [lit |-> "omitted", v |-> 0]]
NL == [tok |-> "nl", doc |-> NoDoc]
Text(doc) == [tok |-> "json", doc |-> doc]

\* ------------------------------------------------------------------------
\* The log file and SignalJournal
\* ------------------------------------------------------------------------
Absent == [exists |-> FALSE, content |-> << >>]

\* fs.existsSync(logPath)
existsSync(f) == f.exists

\* fs.appendFileSync(logPath, data): creates the file when it is not there
appendFileSync(f, data) == [exists |-> TRUE, content |-> f.content \o data]

\* fs.unlinkSync(logPath)
unlinkSync(f) == Absent

\* text.split(/\r?\n/): the pieces between line breaks, empty ones included
RECURSIVE SplitLines(_, _)
SplitLines(content, line) ==
    IF content = << >> THEN <<line>>
    ELSE IF Head(content).tok = "nl"
         THEN <<line>> \o SplitLines(Tail(content), << >>)
         ELSE SplitLines(Tail(content), Append(line, Head(content)))

\* .filter(Boolean): drops the empty pieces
RECURSIVE FilterNonEmpty(_)
FilterNonEmpty(lines) ==
    IF lines = << >> THEN << >>
    ELSE IF Head(lines) = << >> THEN FilterNonEmpty(Tail(lines))
         ELSE <<Head(lines)>> \o FilterNonEmpty(Tail(lines))

\* one line parses when it is exactly one JSON document
LineParses(line) == Len(line) = 1 /\ line[1].tok = "json"

\* readAll that leaves out the lines that do not parse
SignalJournal_readAll_skipCorrupt(f) ==
    IF ~existsSync(f) THEN [result |-> "ok", entries |-> << >>]
    ELSE LET lines == FilterNonEmpty(SplitLines(f.content, << >>))
             good == SelectSeq(lines, LineParses)
         IN  [result |-> "ok",
              entries |-> [i \in 1..Len(good) |-> JsonParse(good[i][1].doc)]]

\* SignalJournal.readAll: no file is an empty journal; otherwise every
\* non-empty line is parsed, and one line that does not parse throws
SignalJournal_readAll(f) ==
    IF ~existsSync(f) THEN [result |-> "ok", entries |-> << >>]
    ELSE LET lines == FilterNonEmpty(SplitLines(f.content, << >>))
         IN  IF \A i \in 1..Len(lines) : LineParses(lines[i])
             THEN [result |-> "ok",
                   entries |-> [i \in 1..Len(lines) |-> JsonParse(lines[i][1].doc)]]
             ELSE [result |-> "error", entries |-> << >>]

\* append that writes the line before it validates the entry
SignalJournal_append_writeFirst(f, entry) ==
    LET written == appendFileSync(f, <<Text(JsonStringify(entry)), NL>>)
        v == validator(entry.kind)
    IN  IF v.result = "error"
        THEN [result |-> "error", error |-> "Unknown envelope kind",
              items |-> << >>, file |-> written]
        ELSE IF ~SchemaValid(v.schema, entry.payload)
             THEN [result |-> "error", error |-> "validation failed",
                   items |-> ValidateErrors(v.schema, entry.payload),
                   file |-> written]
             ELSE [result |-> "ok", error |-> "none", items |-> << >>,
                   file |-> written]

\* append that throws a message of its own for a payload the schema rejects
SignalJournal_append_ownMessage(f, entry) ==
    LET v == validator(entry.kind)
    IN  IF v.result = "error"
        THEN [result |-> "error", error |-> "Unknown envelope kind",
              items |-> << >>, file |-> f]
        ELSE IF ~SchemaValid(v.schema, entry.payload)
             THEN [result |-> "error", error |-> "invalid journal entry",
                   items |-> << >>, file |-> f]
             ELSE [result |-> "ok", error |-> "none", items |-> << >>,
                   file |-> appendFileSync(f, <<Text(JsonStringify(entry)), NL>>)]

\* SignalJournal.append: validator(kind) throws on an unknown kind, a payload
\* the schema rejects throws the items of validate.errors joined with "; ",
\* and only then is one line appended
SignalJournal_append(f, entry) ==
    LET v == validator(entry.kind)
    IN  IF v.result = "error"
        THEN [result |-> "error", error |-> "Unknown envelope kind",
              items |-> << >>, file |-> f]
        ELSE IF ~SchemaValid(v.schema, entry.payload)
             THEN [result |-> "error", error |-> "validation failed",
                   items |-> ValidateErrors(v.schema, entry.payload),
                   file |-> f]
             ELSE [result |-> "ok", error |-> "none", items |-> << >>,
                   file |-> appendFileSync(f, <<Text(JsonStringify(entry)), NL>>)]

\* clear that empties the file (truncate) instead of deleting it
SignalJournal_clear_truncate(f) ==
    IF existsSync(f) THEN [exists |-> TRUE, content |-> << >>] ELSE f

\* SignalJournal.clear: deletes the file when it is there
SignalJournal_clear(f) == IF existsSync(f) THEN unlinkSync(f) ELSE f

NoJCall == [op |-> "none", arg |-> NoEntry, result |-> "ok", error |-> "none",
            items |-> << >>, ret |-> << >>, before |-> Absent]

JournalInit ==
    /\ file = Absent
    /\ jcall = NoJCall
    /\ appended = << >>
    /\ jops = 0

JournalAppend(entry) ==
    /\ jops < MaxJournalOps
    /\ LET r == SignalJournal_append(file, entry)
       IN  /\ file' = r.file
           /\ jcall' = [op |-> "append", arg |-> entry, result |-> r.result,
                        error |-> r.error, items |-> r.items,
                        ret |-> << >>, before |-> file]
           /\ appended' = IF r.result = "ok" THEN Append(appended, entry)
                          ELSE appended
    /\ jops' = jops + 1
    /\ UNCHANGED <<bvars, fvars, rvars, svars>>
    /\ UNCHANGED ovars

JournalReadAll ==
    /\ jops < MaxJournalOps
    /\ LET r == SignalJournal_readAll(file)
       IN  jcall' = [op |-> "readAll", arg |-> NoEntry, result |-> r.result,
                     error |-> "none", items |-> << >>,
                     ret |-> r.entries, before |-> file]
    /\ jops' = jops + 1
    /\ UNCHANGED <<file, appended>>
    /\ UNCHANGED <<bvars, fvars, rvars, svars>>
    /\ UNCHANGED ovars

JournalClear ==
    /\ jops < MaxJournalOps
    /\ file' = SignalJournal_clear(file)
    /\ jcall' = [op |-> "clear", arg |-> NoEntry, result |-> "ok",
                 error |-> "none", items |-> << >>, ret |-> << >>,
                 before |-> file]
    /\ appended' = << >>
    /\ jops' = jops + 1
    /\ UNCHANGED <<bvars, fvars, rvars, svars>>
    /\ UNCHANGED ovars

JournalAppendAny == \E entry \in JournalEntry : JournalAppend(entry)

JournalNext ==
    \/ JournalAppendAny
    \/ JournalReadAll
    \/ JournalClear

\* ------------------------------------------------------------------------
\* assertValid (packages/types/src/event.ts)
\* ------------------------------------------------------------------------
\* assertValid whose message is made of the first error only
assertValid_firstError(kind, payload) ==
    LET v == validator(kind)
    IN  IF v.result = "error"
        THEN [result |-> "error", error |-> "Unknown envelope kind",
              items |-> << >>]
        ELSE IF ~SchemaValid(v.schema, payload)
             THEN [result |-> "error", error |-> "validation failed",
                   items |-> <<ValidateErrors(v.schema, payload)[1]>>]
             ELSE [result |-> "ok", error |-> "none", items |-> << >>]

\* assertValid(kind, payload): throws for an unknown kind, throws the
\* schema's errors for a payload the schema rejects, returns otherwise.
\* items holds the item of every error of validate.errors, in order: the
\* message the error is thrown with joins them with "; "
assertValid(kind, payload) ==
    LET v == validator(kind)
    IN  IF v.result = "error"
        THEN [result |-> "error", error |-> "Unknown envelope kind",
              items |-> << >>]
        ELSE IF ~SchemaValid(v.schema, payload)
             THEN [result |-> "error", error |-> "validation failed",
                   items |-> ValidateErrors(v.schema, payload)]
             ELSE [result |-> "ok", error |-> "none", items |-> << >>]

\* ------------------------------------------------------------------------
\* Text on disk and on the wire
\* ------------------------------------------------------------------------
\* text that is not JSON
Garbage == [tok |-> "garbage", doc |-> NoDoc]

JsonNumber(n) == [lit |-> "number", v |-> n]
JsonNull == [lit |-> "null", v |-> 0]
JsonOmitted == [lit |-> "omitted", v |-> 0]

\* JSON documents written to replay files and sent to the ingress server:
\* two valid events, a valid agent frame, an event whose ZOOM_DELTA is null,
\* one without ZOOM_DELTA, an agent frame sent as an event, an unknown kind
WireDocs ==
    { [kind |-> "event.v1", shape |-> "EventEnvelope", zoom |-> JsonNumber(0)],
      [kind |-> "event.v1", shape |-> "EventEnvelope", zoom |-> JsonNumber(MaxNum)],
      [kind |-> "agent_frame.v1", shape |-> "AgentFrame", zoom |-> JsonNumber(0)],
      [kind |-> "event.v1", shape |-> "EventEnvelope", zoom |-> JsonNull],
      [kind |-> "event.v1", shape |-> "EventEnvelope", zoom |-> JsonOmitted],
      [kind |-> "event.v1", shape |-> "AgentFrame", zoom |-> JsonNumber(0)],
      [kind |-> "other.v9", shape |-> "EventEnvelope", zoom |-> JsonNumber(0)] }

WireTexts == {Text(doc) : doc \in WireDocs} \cup {Garbage}

\* sequences over S of length at most n
SeqsUpTo(S, n) == UNION {[1..k -> S] : k \in 0..n}

\* ------------------------------------------------------------------------
\* readFrames (scripts/replay.ts)
\* ------------------------------------------------------------------------
\* what the callback of lines.map does with one line: JSON.parse throws on
\* text that is not JSON, assertValid throws on an invalid record
readFrameLine(line) ==
    IF ~LineParses(line)
    THEN [result |-> "error", error |-> "SyntaxError", frame |-> NoEntry]
    ELSE LET parsed == JsonParse(line[1].doc)
             a == assertValid(parsed.kind, parsed.payload)
         IN  [result |-> a.result, error |-> a.error,
              frame |-> IF a.result = "ok" THEN parsed ELSE NoEntry]

\* the frames of the lines that were read without an error
RECURSIVE SelectOk(_)
SelectOk(rs) ==
    IF rs = << >> THEN << >>
    ELSE IF Head(rs).result = "ok"
         THEN <<Head(rs).frame>> \o SelectOk(Tail(rs))
         ELSE SelectOk(Tail(rs))

\* readFrames that skips the lines it cannot use and returns the rest
readFrames_skipBadLines(f) ==
    IF ~existsSync(f)
    THEN [result |-> "error", error |-> "ENOENT", frames |-> << >>, file |-> f]
    ELSE LET lines == FilterNonEmpty(SplitLines(f.content, << >>))
             rs == [i \in 1..Len(lines) |-> readFrameLine(lines[i])]
         IN  [result |-> "ok", error |-> "none", frames |-> SelectOk(rs), file |-> f]

\* readFrames that removes the file once it has read it
readFrames_consumeFile(f) ==
    IF ~existsSync(f)
    THEN [result |-> "error", error |-> "ENOENT", frames |-> << >>, file |-> f]
    ELSE LET lines == FilterNonEmpty(SplitLines(f.content, << >>))
             rs == [i \in 1..Len(lines) |-> readFrameLine(lines[i])]
             bad == {i \in 1..Len(lines) : rs[i].result = "error"}
         IN  IF bad # {}
             THEN LET first == CHOOSE i \in bad : \A j \in bad : i <= j
                  IN  [result |-> "error", error |-> rs[first].error,
                       frames |-> << >>, file |-> f]
             ELSE [result |-> "ok", error |-> "none",
                   frames |-> [i \in 1..Len(lines) |-> rs[i].frame],
                   file |-> unlinkSync(f)]

\* readFrames(path): readFileSync throws when the file is not there; the
\* lines are mapped in order and the first line that throws ends the call,
\* so frames are returned only when every line parsed and validated. The
\* file is only read.
readFrames(f) ==
    IF ~existsSync(f)
    THEN [result |-> "error", error |-> "ENOENT", frames |-> << >>, file |-> f]
    ELSE LET lines == FilterNonEmpty(SplitLines(f.content, << >>))
             rs == [i \in 1..Len(lines) |-> readFrameLine(lines[i])]
             bad == {i \in 1..Len(lines) : rs[i].result = "error"}
         IN  IF bad # {}
             THEN LET first == CHOOSE i \in bad : \A j \in bad : i <= j
                  IN  [result |-> "error", error |-> rs[first].error,
                       frames |-> << >>, file |-> f]
             ELSE [result |-> "ok", error |-> "none",
                   frames |-> [i \in 1..Len(lines) |-> rs[i].frame],
                   file |-> f]

NoRCall == [op |-> "none", result |-> "ok", error |-> "none",
            frames |-> << >>, fileSeen |-> Absent]

ReadIdle ==
    /\ rcall = NoRCall
    /\ rops = 0

\* the files readFrames is given: absent, or any text of a few pieces
ReplayFiles ==
    {Absent} \cup
    {[exists |-> TRUE, content |-> c] :
        c \in SeqsUpTo(WireTexts \cup {NL}, MaxFileTokens)}

ReadFrames ==
    /\ rops < MaxReadOps
    /\ LET r == readFrames(file)
       IN  /\ rcall' = [op |-> "readFrames", result |-> r.result,
                        error |-> r.error, frames |-> r.frames,
                        fileSeen |-> file]
           /\ file' = r.file
    /\ rops' = rops + 1
    /\ UNCHANGED <<jcall, appended, jops>>
    /\ UNCHANGED <<bvars, rvars, svars>>
    /\ UNCHANGED ovars

\* ------------------------------------------------------------------------
\* The ingress server (services/telemetry/ws-server/index.ts)
\* ------------------------------------------------------------------------
Conns == {"c1", "c2"}

NoMinimal == [shape |-> "none", zoom |-> JsonOmitted]

\* JSON texts that are no object: null, and a number
JsonNullText == [tok |-> "json-null", doc |-> NoDoc]
JsonNumberText == [tok |-> "json-number", doc |-> NoDoc]

\* a JSON object without a kind property, otherwise a valid event
NoKindText ==
    Text([kind |-> "missing", shape |-> "EventEnvelope", zoom |-> JsonNumber(0)])

\* the texts a client of the ingress server sends
IngressTexts == WireTexts \cup {JsonNullText, JsonNumberText, NoKindText}

\* telemetryMessage that takes a message without a kind as an event
telemetryMessage_defaultKind(message) ==
    IF message.tok = "json-null"
    THEN [result |-> "error", error |-> "TypeError",
          kind |-> "none", payload |-> NoEntry.payload]
    ELSE IF message.tok = "json-number"
    THEN [result |-> "error", error |-> "validation failed",
          kind |-> "none", payload |-> NoEntry.payload]
    ELSE IF message.tok # "json"
    THEN [result |-> "error", error |-> "SyntaxError",
          kind |-> "none", payload |-> NoEntry.payload]
    ELSE LET parsed == JsonParse(message.doc)
             kind == IF parsed.kind = "missing" THEN "event.v1" ELSE parsed.kind
             a == assertValid(kind, parsed.payload)
         IN  [result |-> a.result, error |-> a.error,
              kind |-> kind, payload |-> parsed.payload]

\* telemetryMessage(message): JSON.parse, then the kind and payload
\* properties of what was parsed, then validateEnvelope/assertValid on
\* them; any of the steps may throw. Reading a property of null throws a
\* TypeError; a number has no kind property, and neither has an object
\* written without one: kind is then undefined ("missing")
telemetryMessage(message) ==
    IF message.tok = "json-null"
    THEN [result |-> "error", error |-> "TypeError",
          kind |-> "none", payload |-> NoEntry.payload]
    ELSE IF message.tok = "json-number"
    THEN LET a == assertValid("missing", NoEntry.payload)
         IN  [result |-> a.result, error |-> a.error,
              kind |-> "missing", payload |-> NoEntry.payload]
    ELSE IF message.tok # "json"
    THEN [result |-> "error", error |-> "SyntaxError",
          kind |-> "none", payload |-> NoEntry.payload]
    ELSE LET parsed == JsonParse(message.doc)
             a == assertValid(parsed.kind, parsed.payload)
         IN  [result |-> a.result, error |-> a.error,
              kind |-> parsed.kind, payload |-> parsed.payload]

\* buildResponse(kind, payload): JSON.stringify({status: "ok", kind, minimal})
buildResponse(kind, payload) ==
    [status |-> "ok", kind |-> kind,
     minimal |-> [shape |-> payload.shape,
                  zoom |-> JsonStringifyValue(payload.zoom)],
     error |-> "none"]

\* JSON.stringify({status: "error", error: err.message})
errorResponse(message) ==
    [status |-> "error", kind |-> "none", minimal |-> NoMinimal,
     error |-> message]

\* a message handler that answers ok without validating
onMessage_noValidation(data) ==
    IF data.tok # "json"
    THEN [response |-> errorResponse("SyntaxError"), conn |-> "open"]
    ELSE LET parsed == JsonParse(data.doc)
         IN  [response |-> buildResponse(parsed.kind, parsed.payload),
              conn |-> "open"]

\* a message handler that closes the socket after an error response
onMessage_closeOnError(data) ==
    LET t == telemetryMessage(data)
    IN  IF t.result = "ok"
        THEN [response |-> buildResponse(t.kind, t.payload), conn |-> "open"]
        ELSE [response |-> errorResponse(t.error), conn |-> "closed"]

\* socket.on("message", ...): one socket.send per message, the ok response
\* from the try block or the error response from the catch block; the
\* socket is left open either way
onMessage(data) ==
    LET t == telemetryMessage(data)
    IN  IF t.result = "ok"
        THEN [response |-> buildResponse(t.kind, t.payload), conn |-> "open"]
        ELSE [response |-> errorResponse(t.error), conn |-> "open"]

\* message events that hand over the newest text first
Dequeue_newestFirst(q) ==
    [msg |-> q[Len(q)], rest |-> SubSeq(q, 1, Len(q) - 1)]

\* the socket emits its "message" events in arrival order
Dequeue(q) == [msg |-> Head(q), rest |-> Tail(q)]

ServerIdle ==
    /\ inbox = [c \in Conns |-> << >>]
    /\ outbox = [c \in Conns |-> << >>]
    /\ arrived = [c \in Conns |-> << >>]
    /\ received = [c \in Conns |-> << >>]
    /\ responses = [c \in Conns |-> << >>]
    /\ connState = [c \in Conns |-> "open"]
    /\ msgs = 0

\* a handler that answers on one socket kept for the whole server, the
\* socket of the connection made last
replySocket_shared(c) == "c2"

\* the socket the handler of connection c calls send on: the socket of the
\* "connection" callback the handler was registered in
replySocket(c) == c

\* the server handles the next message of connection c
ServerHandleOn(c) ==
    /\ connState[c] = "open"
    /\ inbox[c] # << >>
    /\ LET d == Dequeue(inbox[c])
           r == onMessage(d.msg)
       IN  /\ inbox' = [inbox EXCEPT ![c] = d.rest]
           /\ received' = [received EXCEPT ![c] = Append(@, d.msg)]
           /\ responses' = [responses EXCEPT ![replySocket(c)] = Append(@, r.response)]
           /\ outbox' = [outbox EXCEPT ![replySocket(c)] = Append(@, r.response)]
           /\ connState' = [connState EXCEPT ![c] = r.conn]
    /\ UNCHANGED <<arrived, msgs>>
    /\ UNCHANGED <<bvars, jvars, fvars, rvars>>
    /\ UNCHANGED ovars

ServerHandle == \E c \in Conns : ServerHandleOn(c)

\* a client puts a text on the wire of connection c
ClientSendOn(c, text) ==
    /\ msgs < MaxMsgs
    /\ connState[c] = "open"
    /\ inbox' = [inbox EXCEPT ![c] = Append(@, text)]
    /\ arrived' = [arrived EXCEPT ![c] = Append(@, text)]
    /\ msgs' = msgs + 1
    /\ UNCHANGED <<outbox, received, responses, connState>>
    /\ UNCHANGED <<bvars, jvars, fvars, rvars>>
    /\ UNCHANGED ovars

ClientSend == \E c \in Conns : \E text \in IngressTexts : ClientSendOn(c, text)

IngressNext ==
    \/ ClientSend
    \/ ServerHandle

\* ------------------------------------------------------------------------
\* sendFrames (scripts/replay.ts)
\* ------------------------------------------------------------------------
\* the connection sendFrames uses
ReplayConn == "c1"

\* frame lists given to sendFrames directly: a valid event, a valid agent
\* frame, an event whose ZOOM_DELTA is NaN, an invalid event
ReplayFrames ==
    { [kind |-> "event.v1", payload |-> [shape |-> "EventEnvelope", zoom |-> JsNum(0)]],
      [kind |-> "agent_frame.v1", payload |-> [shape |-> "AgentFrame", zoom |-> JsNum(MaxNum)]],
      [kind |-> "event.v1", payload |-> [shape |-> "EventEnvelope", zoom |-> JsNaN]],
      [kind |-> "event.v1", payload |-> [shape |-> "EventEnvelope", zoom |-> JsUndefined]] }

\* messages an arbitrary endpoint may send
EndpointTexts ==
    { buildResponse("event.v1", [shape |-> "EventEnvelope", zoom |-> JsNum(0)]),
      errorResponse("validation failed") }

SocketErrors == {"ECONNREFUSED", "ECONNRESET"}

\* a promise that every call of resolve() or reject(err) settles again
Settle_overwrite(state, to) == to

\* resolve()/reject(err) of the promise: only the first call settles it
Settle(state, to) == IF state = "pending" THEN to ELSE state

\* an "open" handler that sends the frames last to first
onOpen_reversed(fr) ==
    [i \in 1..Len(fr) |-> Text(JsonStringify(fr[Len(fr) + 1 - i]))]

\* socket.on("open"): frames.forEach((frame) => socket.send(JSON.stringify(frame)))
onOpen(fr) == [i \in 1..Len(fr) |-> Text(JsonStringify(fr[i]))]

\* a "message" handler that resolves one acknowledgement early
onAck_early(a, n) ==
    [acks |-> a + 1, done |-> a + 1 >= n - 1]

\* socket.on("message"): acknowledgements += 1, and close and resolve once
\* acknowledgements >= frames.length
onAck(a, n) == [acks |-> a + 1, done |-> a + 1 >= n]

\* an "error" handler that opens a new connection instead of rejecting
onError_retry(state, err) ==
    [outcome |-> state, sock |-> "connecting", connections |-> 1]

\* socket.on("error", (err) => reject(err)); the failed socket emits nothing
\* more, and no other socket is created
onError(state, err) ==
    [outcome |-> Settle(state, "rejected"), sock |-> "errored", connections |-> 0]

ReplayIdle ==
    /\ phase = "idle"
    /\ frames = << >>
    /\ sock = "none"
    /\ sent = << >>
    /\ acks = 0
    /\ outcome = "none"
    /\ rerr = "none"
    /\ reported = << >>
    /\ connections = 0
    /\ envMsgs = 0
    /\ opens = 0

\* sendFrames(url, fr) has been called: the promise is pending, the socket
\* is connecting and the handlers are registered
SendFramesCalled(fr) ==
    /\ phase = "sending"
    /\ frames = fr
    /\ sock = "connecting"
    /\ sent = << >>
    /\ acks = 0
    /\ outcome = "pending"
    /\ rerr = "none"
    /\ reported = << >>
    /\ connections = 1
    /\ envMsgs = 0
    /\ opens = 0

\* the "open" event
SocketOpen ==
    /\ phase = "sending"
    /\ sock = "connecting"
    /\ sock' = "open"
    /\ opens' = opens + 1
    /\ sent' = sent \o onOpen(frames)
    /\ inbox' = [inbox EXCEPT ![ReplayConn] = @ \o onOpen(frames)]
    /\ arrived' = [arrived EXCEPT ![ReplayConn] = @ \o onOpen(frames)]
    /\ UNCHANGED <<phase, frames, acks, outcome, rerr, reported, connections, envMsgs>>
    /\ UNCHANGED <<outbox, received, responses, connState, msgs>>
    /\ UNCHANGED <<bvars, jvars, fvars>>
    /\ UNCHANGED ovars

\* a "message" event: the next text in flight to the client is delivered.
\* The handler stays registered after resolve() and after reject(err), so
\* a text that was in flight when the connection reported an error still
\* runs it; socket.close() changes an open socket only
SocketMessage ==
    /\ phase = "sending"
    /\ sock \in {"open", "closing", "errored"}
    /\ outbox[ReplayConn] # << >>
    /\ outbox' = [outbox EXCEPT ![ReplayConn] = Tail(@)]
    /\ LET r == onAck(acks, Len(frames))
       IN  /\ acks' = r.acks
           /\ sock' = IF r.done /\ sock = "open" THEN "closing" ELSE sock
           /\ outcome' = IF r.done THEN Settle(outcome, "resolved") ELSE outcome
    /\ UNCHANGED <<phase, frames, sent, rerr, reported, connections, envMsgs, opens>>
    /\ UNCHANGED <<inbox, arrived, received, responses, connState, msgs>>
    /\ UNCHANGED <<bvars, jvars, fvars>>
    /\ UNCHANGED ovars

\* an "error" event: the connection fails while connecting, open or closing
SocketErrorWith(err) ==
    /\ phase = "sending"
    /\ sock \in {"connecting", "open", "closing"}
    /\ LET r == onError(outcome, err)
       IN  /\ outcome' = r.outcome
           /\ sock' = r.sock
           /\ connections' = connections + r.connections
           /\ rerr' = IF outcome = "pending" /\ r.outcome = "rejected"
                      THEN err ELSE rerr
    /\ reported' = Append(reported, err)
    /\ UNCHANGED <<phase, frames, sent, acks, envMsgs, opens>>
    /\ UNCHANGED svars
    /\ UNCHANGED <<bvars, jvars, fvars>>
    /\ UNCHANGED ovars

SocketError == \E err \in SocketErrors : SocketErrorWith(err)

\* a "close" handler that rejects the promise
onClose_reject(state) == Settle(state, "rejected")

\* the "close" event: sendFrames registers no handler for it, so the
\* promise is as it was
onClose(state) == state

\* the connection closes without an error, once every text in flight was
\* delivered: the endpoint closed it, or the close sendFrames asked for
\* has completed
SocketClosed ==
    /\ phase = "sending"
    /\ sock \in {"open", "closing"}
    /\ outbox[ReplayConn] = << >>
    /\ sock' = "closed"
    /\ outcome' = onClose(outcome)
    /\ UNCHANGED <<phase, frames, sent, acks, rerr, reported, connections,
                   envMsgs, opens>>
    /\ UNCHANGED svars
    /\ UNCHANGED <<bvars, jvars, fvars>>
    /\ UNCHANGED ovars

\* an arbitrary endpoint sends a message on the open connection
EndpointSendText(text) ==
    /\ phase = "sending"
    /\ sock \in {"open", "closing"}
    /\ envMsgs < MaxEnvMsgs
    /\ outbox' = [outbox EXCEPT ![ReplayConn] = Append(@, text)]
    /\ envMsgs' = envMsgs + 1
    /\ UNCHANGED <<phase, frames, sock, sent, acks, outcome, rerr, reported,
                   connections, opens>>
    /\ UNCHANGED <<inbox, arrived, received, responses, connState, msgs>>
    /\ UNCHANGED <<bvars, jvars, fvars>>
    /\ UNCHANGED ovars

EndpointSend == \E text \in EndpointTexts : EndpointSendText(text)

\* main() of scripts/replay.ts and of the replay test: readFrames(logPath),
\* then sendFrames(url, frames); readFrames throwing ends the run
ReplayMain ==
    /\ phase = "idle"
    /\ LET r == readFrames(file)
       IN  /\ rcall' = [op |-> "readFrames", result |-> r.result,
                        error |-> r.error, frames |-> r.frames,
                        fileSeen |-> file]
           /\ file' = r.file
           /\ IF r.result = "ok"
              THEN /\ phase' = "sending"
                   /\ frames' = r.frames
                   /\ sock' = "connecting"
                   /\ outcome' = "pending"
                   /\ connections' = 1
              ELSE /\ phase' = "threw"
                   /\ UNCHANGED <<frames, sock, outcome, connections>>
    /\ rops' = rops + 1
    /\ UNCHANGED <<sent, acks, rerr, reported, envMsgs, opens>>
    /\ UNCHANGED <<jcall, appended, jops>>
    /\ UNCHANGED <<bvars, svars>>
    /\ UNCHANGED ovars

\* sendFrames against an arbitrary endpoint
ReplayNext ==
    \/ SocketOpen
    \/ SocketMessage
    \/ SocketError
    \/ SocketClosed
    \/ EndpointSend

\* sendFrames against the ingress server, on a connection without errors
ReplayServedNext ==
    \/ SocketOpen
    \/ SocketMessage
    \/ ServerHandle

\* readFrames, then sendFrames against the ingress server
EndToEndNext ==
    \/ ReplayMain
    \/ SocketOpen
    \/ SocketMessage
    \/ ServerHandle

\* ------------------------------------------------------------------------
\* Calls of assertValid on any kind and payload
\* ------------------------------------------------------------------------
NoVCall == [kind |-> "none",
            payload |-> [shape |-> "none", zoom |-> JsUndefined, trigger |-> JsUndefined],
            result |-> "ok", error |-> "none", items |-> << >>]

AssertValidCalled(kind, payload) ==
    /\ vops < MaxValidatorOps
    /\ LET a == assertValid(kind, payload)
       IN  vcall' = [kind |-> kind, payload |-> payload, result |-> a.result,
                     error |-> a.error, items |-> a.items]
    /\ vops' = vops + 1
    /\ UNCHANGED <<avars, cvars, dvars>>
    /\ UNCHANGED xvars
    /\ UNCHANGED <<bvars, jvars, fvars, rvars, svars>>

ValidatorNext ==
    \E kind \in Kinds : \E payload \in FullPayloads :
        AssertValidCalled(kind, payload)

ValidatorIdle ==
    /\ vcall = NoVCall
    /\ vops = 0

\* ------------------------------------------------------------------------
\* IMURingBuffer with its samples as objects: the caller and the buffer
\* hold references, and an object changed through one is changed for all
\* ------------------------------------------------------------------------
\* sample objects the caller makes, and the ts values it assigns
AliasSamples == [ts : {Num(0), Num(MaxTs)}, quaternion : {"qa"}]
AssignedTs == {Num(0), Num(MaxTs), NaN}

\* the samples an array of references shows to its reader
Deref(ids) == [i \in 1..Len(ids) |-> heap[ids[i]]]

\* the objects of an array of references, each with its identity
Handles(ids) ==
    [i \in 1..Len(ids) |-> [ts |-> heap[ids[i]].ts,
                            quaternion |-> heap[ids[i]].quaternion,
                            id |-> ids[i]]]

Ids(handles) == [i \in 1..Len(handles) |-> handles[i].id]

\* Array.prototype.reverse
Reverse(a) == [i \in 1..Len(a) |-> a[Len(a) + 1 - i]]

\* buffer.push(obj) with a new object: this.buffer keeps the reference
PushObject(sample) ==
    /\ aops < MaxAliasOps
    /\ LET id == Len(heap) + 1
           r == IMURingBuffer_push(Handles(refs), capacity,
                    [ts |-> sample.ts, quaternion |-> sample.quaternion, id |-> id])
       IN  /\ heap' = Append(heap, sample)
           /\ refs' = Ids(r.buffer)
    /\ acall' = "push"
    /\ aops' = aops + 1
    /\ UNCHANGED returned
    /\ UNCHANGED <<vvars, cvars, dvars>>
    /\ UNCHANGED xvars
    /\ UNCHANGED <<bvars, jvars, fvars, rvars, svars>>

\* returned = buffer.snapshot(): [...this.buffer] is a new array holding
\* the same references
SnapshotTaken ==
    /\ aops < MaxAliasOps
    /\ returned' = IMURingBuffer_snapshot(refs)
    /\ acall' = "snapshot"
    /\ aops' = aops + 1
    /\ UNCHANGED <<heap, refs>>
    /\ UNCHANGED <<vvars, cvars, dvars>>
    /\ UNCHANGED xvars
    /\ UNCHANGED <<bvars, jvars, fvars, rvars, svars>>

\* the caller changes the array it was returned: the new content of the
\* array, and the new content of the heap
CallerMutates(newReturned, newHeap) ==
    /\ aops < MaxAliasOps
    /\ returned' = newReturned
    /\ heap' = newHeap
    /\ acall' = "mutate"
    /\ aops' = aops + 1
    /\ UNCHANGED refs
    /\ UNCHANGED <<vvars, cvars, dvars>>
    /\ UNCHANGED xvars
    /\ UNCHANGED <<bvars, jvars, fvars, rvars, svars>>

\* returned.push(obj) with a new object
ReturnedAppend ==
    \E sample \in AliasSamples :
        CallerMutates(Append(returned, Len(heap) + 1), Append(heap, sample))

\* returned.pop()
ReturnedPop ==
    /\ returned # << >>
    /\ CallerMutates(SubSeq(returned, 1, Len(returned) - 1), heap)

\* returned.reverse()
ReturnedReverse ==
    /\ Len(returned) >= 2
    /\ CallerMutates(Reverse(returned), heap)

\* returned[i] = obj with a new object
ReturnedReplace ==
    \E i \in 1..Len(returned) : \E sample \in AliasSamples :
        CallerMutates([returned EXCEPT ![i] = Len(heap) + 1], Append(heap, sample))

\* returned[i].ts = ts
ReturnedSetTs ==
    \E i \in 1..Len(returned) : \E ts \in AssignedTs :
        /\ heap[returned[i]].ts # ts
        /\ CallerMutates(returned, [heap EXCEPT ![returned[i]].ts = ts])

AliasNext ==
    \/ \E sample \in AliasSamples : PushObject(sample)
    \/ SnapshotTaken
    \/ ReturnedAppend
    \/ ReturnedPop
    \/ ReturnedReverse
    \/ ReturnedReplace
    \/ ReturnedSetTs

\* no object made, and the snapshot of the new buffer taken
AliasIdle ==
    /\ heap = << >>
    /\ refs = << >>
    /\ returned = << >>
    /\ aops = 0
    /\ acall = "snapshot"

\* ------------------------------------------------------------------------
\* The constructor of IMURingBuffer
\* ------------------------------------------------------------------------
\* constructor(capacity = 256)
DefaultCapacity == 256

\* the argument of new IMURingBuffer(...): an integer, or none
CtorArgs ==
    {[given |-> TRUE, v |-> n] : n \in (0 - MaxCapacity)..MaxCapacity}
        \cup {[given |-> FALSE, v |-> 0]}

\* a constructor that only refuses a negative capacity
IMURingBuffer_constructor_allowZero(arg) ==
    LET cap == IF arg.given THEN arg.v ELSE DefaultCapacity
    IN  IF cap < 0
        THEN [result |-> "error", capacity |-> 0, buffer |-> << >>]
        ELSE [result |-> "ok", capacity |-> cap, buffer |-> << >>]

\* the constructor: throws "capacity must be positive" when capacity <= 0,
\* and no object comes to be; otherwise the buffer starts empty
IMURingBuffer_constructor(arg) ==
    LET cap == IF arg.given THEN arg.v ELSE DefaultCapacity
    IN  IF cap <= 0
        THEN [result |-> "error", capacity |-> 0, buffer |-> << >>]
        ELSE [result |-> "ok", capacity |-> cap, buffer |-> << >>]

NoCtor == [state |-> "none", arg |-> [given |-> FALSE, v |-> 0]]

\* new IMURingBuffer(arg)
Construct(arg) ==
    /\ ctor.state = "none"
    /\ LET r == IMURingBuffer_constructor(arg)
       IN  /\ ctor' = [state |-> r.result, arg |-> arg]
           /\ capacity' = r.capacity
           /\ buffer' = r.buffer
    /\ UNCHANGED <<bcall, attempted, pushed, everCleared, ops>>
    /\ UNCHANGED <<vvars, avars, dvars>>
    /\ UNCHANGED xvars
    /\ UNCHANGED <<jvars, fvars, rvars, svars>>

ConstructAny == \E arg \in CtorArgs : Construct(arg)

\* the calls a caller can make: only on a buffer that was constructed
Constructed == ctor.state = "ok" /\ ops < MaxCtorOps
ConstructedPush == Constructed /\ PushAny
ConstructedSnapshot == Constructed /\ Snapshot
ConstructedLatest == Constructed /\ Latest
ConstructedClear == Constructed /\ Clear

ConstructNext ==
    \/ ConstructAny
    \/ ConstructedPush
    \/ ConstructedSnapshot
    \/ ConstructedLatest
    \/ ConstructedClear

\* ------------------------------------------------------------------------
\* The constructor of SignalJournal, and journals opened on a file that is
\* already on disk
\* ------------------------------------------------------------------------
\* a constructor that opens the log for writing
SignalJournal_constructor_openLog(dir, f) ==
    [dir |-> TRUE, file |-> [exists |-> TRUE, content |-> << >>]]

\* the constructor: makes the directory of logPath when it is not there,
\* and does not touch logPath itself
SignalJournal_constructor(dir, f) ==
    [dir |-> IF ~dir THEN TRUE ELSE dir, file |-> f]

\* new SignalJournal(logPath)
JournalConstruct ==
    /\ jctor = "none"
    /\ LET r == SignalJournal_constructor(dirExists, file)
       IN  /\ dirExists' = r.dir
           /\ file' = r.file
    /\ jctor' = "constructed"
    /\ UNCHANGED <<jcall, appended, jops>>
    /\ UNCHANGED <<vvars, avars, cvars>>
    /\ UNCHANGED xvars
    /\ UNCHANGED <<bvars, fvars, rvars, svars>>

\* what a log file found on disk is made of: line breaks, text that is not
\* JSON, a line another journal wrote, a JSON line of another writer
PriorTokens ==
    { NL, Garbage,
      Text([kind |-> "event.v1", shape |-> "EventEnvelope", zoom |-> JsonNumber(0)]),
      Text([kind |-> "event.v1", shape |-> "EventEnvelope", zoom |-> JsonNull]) }

\* the log file before the journal is constructed
PriorFiles ==
    {Absent} \cup
    {[exists |-> TRUE, content |-> c] : c \in SeqsUpTo(PriorTokens, MaxFileTokens)}

\* the calls a caller can make: only on a journal that was constructed
Opened == jctor = "constructed" /\ jops < MaxFsOps
OpenedAppend == Opened /\ \E entry \in ReplayFrames : JournalAppend(entry)
OpenedReadAll == Opened /\ JournalReadAll
OpenedClear == Opened /\ JournalClear

JournalFsNext ==
    \/ JournalConstruct
    \/ OpenedAppend
    \/ OpenedReadAll
    \/ OpenedClear

\* ------------------------------------------------------------------------
\* The listen port of the ingress server
\* ------------------------------------------------------------------------
\* process.env.PORT || "8080"
DefaultPort == 8080

\* characters of a text: decimal digits, and a character that is none
Digit(n) == [digit |-> TRUE, v |-> n]
Letter == [digit |-> FALSE, v |-> 0]
PortChars == {Digit(1), Digit(8), Letter}

\* the text "8080"
DefaultPortText == <<Digit(8), Digit(0), Digit(8), Digit(0)>>

\* process.env.PORT: not set, or set to a text, the empty one included
EnvUnset == [set |-> FALSE, chars |-> << >>]
EnvValues ==
    {EnvUnset} \cup
    {[set |-> TRUE, chars |-> c] : c \in SeqsUpTo(PortChars, MaxPortChars)}

\* the digits a text starts with
RECURSIVE LeadingDigits(_)
LeadingDigits(chars) ==
    IF chars = << >> \/ ~Head(chars).digit THEN << >>
    ELSE <<Head(chars).v>> \o LeadingDigits(Tail(chars))

\* the number a sequence of decimal digits spells
RECURSIVE DecimalValue(_)
DecimalValue(ds) ==
    IF ds = << >> THEN 0
    ELSE 10 * DecimalValue(SubSeq(ds, 1, Len(ds) - 1)) + ds[Len(ds)]

\* parseInt(text, 10): the number the leading digits of the text spell,
\* whatever follows them, and NaN when the text starts with no digit
parseInt(chars) ==
    LET ds == LeadingDigits(chars)
    IN  IF ds = << >> THEN NaN ELSE Num(DecimalValue(ds))

\* const PORT = parseInt(process.env.PORT || "8080", 10): an unset and an
\* empty PORT are both falsy
PORT(e) ==
    parseInt(IF ~e.set \/ e.chars = << >> THEN DefaultPortText ELSE e.chars)

\* server.listen(port): throws for a port that is not an integer of the
\* port range, NaN included
listen(port) ==
    IF port.nan THEN [result |-> "error", port |-> NaN]
    ELSE [result |-> "listening", port |-> port]

\* the argument of startServer(port = PORT): a port, or none
PortArgs ==
    {[given |-> FALSE, v |-> 0]} \cup {[given |-> TRUE, v |-> n] : n \in {1, 2}}

NoStartup == [called |-> FALSE, arg |-> [given |-> FALSE, v |-> 0],
              result |-> "none", port |-> NaN]

\* startServer(arg), the module having been loaded with env
StartServer(arg) ==
    /\ ~startup.called
    /\ LET port == IF arg.given THEN Num(arg.v) ELSE PORT(env)
           r == listen(port)
       IN  startup' = [called |-> TRUE, arg |-> arg, result |-> r.result,
                       port |-> r.port]
    /\ UNCHANGED <<env, jinst, r2>>
    /\ UNCHANGED <<vvars, avars, cvars, dvars>>
    /\ UNCHANGED <<bvars, jvars, fvars, rvars, svars>>

StartupNext == \E arg \in PortArgs : StartServer(arg)

StartupIdle ==
    /\ env = EnvUnset
    /\ startup = NoStartup

\* a second sendFrames call not made
NoR2 == [frames |-> << >>, sock |-> "none", sent |-> << >>, acks |-> 0,
         outcome |-> "none", opens |-> 0]

\* ------------------------------------------------------------------------
\* Two SignalJournal instances constructed on the same logPath
\* ------------------------------------------------------------------------
Instances == {"a", "b"}

\* no call made through either instance; reads counts the readAll calls of
\* an instance, writes the lines it appended, seen is the file its last
\* readAll found
NoInst == [caller |-> "none",
           reads |-> [i \in Instances |-> 0],
           writes |-> [i \in Instances |-> 0],
           seen |-> [i \in Instances |-> Absent]]

\* a readAll that keeps what the first read of the instance found
ReadSource_cached(disk, reads, seen) == IF reads > 0 THEN seen ELSE disk

\* what readAll of an instance reads: the file at logPath as it is when
\* the call is made; the only field of an instance is logPath
ReadSource(disk, reads, seen) == disk

InstAppend(inst, entry) ==
    /\ jops < MaxInstOps
    /\ LET r == SignalJournal_append(file, entry)
       IN  /\ file' = r.file
           /\ jcall' = [op |-> "append", arg |-> entry, result |-> r.result,
                        error |-> r.error, items |-> r.items,
                        ret |-> << >>, before |-> file]
           /\ appended' = IF r.result = "ok" THEN Append(appended, entry)
                          ELSE appended
           /\ jinst' = [jinst EXCEPT !.caller = inst,
                                     !.writes[inst] = IF r.result = "ok"
                                                      THEN @ + 1 ELSE @]
    /\ jops' = jops + 1
    /\ UNCHANGED <<env, startup, r2>>
    /\ UNCHANGED <<vvars, avars, cvars, dvars>>
    /\ UNCHANGED <<bvars, fvars, rvars, svars>>

InstReadAll(inst) ==
    /\ jops < MaxInstOps
    /\ LET source == ReadSource(file, jinst.reads[inst], jinst.seen[inst])
           r == SignalJournal_readAll(source)
       IN  /\ jcall' = [op |-> "readAll", arg |-> NoEntry, result |-> r.result,
                        error |-> "none", items |-> << >>,
                        ret |-> r.entries, before |-> file]
           /\ jinst' = [jinst EXCEPT !.caller = inst,
                                     !.reads[inst] = @ + 1,
                                     !.seen[inst] = source]
    /\ jops' = jops + 1
    /\ UNCHANGED <<file, appended>>
    /\ UNCHANGED <<env, startup, r2>>
    /\ UNCHANGED <<vvars, avars, cvars, dvars>>
    /\ UNCHANGED <<bvars, fvars, rvars, svars>>

InstClear(inst) ==
    /\ jops < MaxInstOps
    /\ file' = SignalJournal_clear(file)
    /\ jcall' = [op |-> "clear", arg |-> NoEntry, result |-> "ok",
                 error |-> "none", items |-> << >>, ret |-> << >>,
                 before |-> file]
    /\ appended' = << >>
    /\ jinst' = [jinst EXCEPT !.caller = inst]
    /\ jops' = jops + 1
    /\ UNCHANGED <<env, startup, r2>>
    /\ UNCHANGED <<vvars, avars, cvars, dvars>>
    /\ UNCHANGED <<bvars, fvars, rvars, svars>>

InstAppendAny ==
    \E inst \in Instances : \E entry \in ReplayFrames : InstAppend(inst, entry)

InstReadAllAny == \E inst \in Instances : InstReadAll(inst)

InstClearAny == \E inst \in Instances : InstClear(inst)

TwoJournalsNext ==
    \/ InstAppendAny
    \/ InstReadAllAny
    \/ InstClearAny

\* ------------------------------------------------------------------------
\* Two sendFrames calls running interleaved against the ingress server
\* ------------------------------------------------------------------------
\* each sendFrames call creates its own WebSocket, and the server gets one
\* "connection" event and one socket for each
ReplayConn2 == "c2"

\* frames of the concurrent calls: one the server accepts, one it answers
\* with an error response
ConcurrentFrames ==
    {f \in ReplayFrames : f.payload.zoom \in {JsNum(0), JsNaN}}

\* the second sendFrames(url, fr) has been called: its own promise, socket
\* and acknowledgements, all local to the call
SendFramesCalled2(fr) ==
    r2 = [frames |-> fr, sock |-> "connecting", sent |-> << >>, acks |-> 0,
          outcome |-> "pending", opens |-> 0]

\* the "open" event of the second call
Socket2Open ==
    /\ r2.sock = "connecting"
    /\ r2' = [r2 EXCEPT !.sock = "open",
                        !.opens = @ + 1,
                        !.sent = @ \o onOpen(r2.frames)]
    /\ inbox' = [inbox EXCEPT ![ReplayConn2] = @ \o onOpen(r2.frames)]
    /\ arrived' = [arrived EXCEPT ![ReplayConn2] = @ \o onOpen(r2.frames)]
    /\ UNCHANGED <<outbox, received, responses, connState, msgs>>
    /\ UNCHANGED <<env, startup, jinst>>
    /\ UNCHANGED <<vvars, avars, cvars, dvars>>
    /\ UNCHANGED <<bvars, jvars, fvars, rvars>>

\* a "message" event of the second call: the next text in flight on its
\* connection is delivered to its handler
Socket2Message ==
    /\ r2.sock \in {"open", "closing"}
    /\ outbox[ReplayConn2] # << >>
    /\ outbox' = [outbox EXCEPT ![ReplayConn2] = Tail(@)]
    /\ LET r == onAck(r2.acks, Len(r2.frames))
       IN  r2' = [r2 EXCEPT !.acks = r.acks,
                            !.sock = IF r.done /\ @ = "open" THEN "closing" ELSE @,
                            !.outcome = IF r.done THEN Settle(@, "resolved") ELSE @]
    /\ UNCHANGED <<inbox, arrived, received, responses, connState, msgs>>
    /\ UNCHANGED <<env, startup, jinst>>
    /\ UNCHANGED <<vvars, avars, cvars, dvars>>
    /\ UNCHANGED <<bvars, jvars, fvars, rvars>>

TwoReplaysNext ==
    \/ SocketOpen
    \/ SocketMessage
    \/ Socket2Open
    \/ Socket2Message
    \/ ServerHandle

\* the state of what only the specifications further down drive
LaterIdle ==
    /\ StartupIdle
    /\ jinst = NoInst
    /\ r2 = NoR2

OtherIdle ==
    /\ ValidatorIdle
    /\ AliasIdle
    /\ LaterIdle
    /\ ctor = NoCtor
    /\ dirExists = TRUE
    /\ jctor = "constructed"

Init ==
    /\ BufferInit /\ JournalInit /\ ReadIdle /\ ReplayIdle /\ ServerIdle
    /\ OtherIdle

SpecBuffer == Init /\ [][BufferNext]_vars

SpecJournal == Init /\ [][JournalNext]_vars

\* the parts of the state a specification does not drive
BufferIdle ==
    /\ capacity = 1
    /\ buffer = << >>
    /\ bcall = NoBCall
    /\ attempted = << >>
    /\ pushed = << >>
    /\ everCleared = FALSE
    /\ ops = 0

JournalIdle ==
    /\ jcall = NoJCall
    /\ appended = << >>
    /\ jops = 0

\* readFrames on any file
InitReadFrames ==
    /\ BufferIdle /\ JournalIdle /\ ReadIdle /\ ReplayIdle /\ ServerIdle
    /\ OtherIdle
    /\ file \in ReplayFiles

SpecReadFrames == InitReadFrames /\ [][ReadFrames]_vars

\* sendFrames on any frame list, against an arbitrary endpoint
InitReplay ==
    /\ BufferIdle /\ JournalIdle /\ ReadIdle /\ ServerIdle
    /\ OtherIdle
    /\ file = Absent
    /\ \E fr \in SeqsUpTo(ReplayFrames, MaxFrames) : SendFramesCalled(fr)

SpecReplay == InitReplay /\ [][ReplayNext]_vars

\* sendFrames on any frame list, against the ingress server: the event loop
\* runs every handler whose event is pending
SpecReplayServed ==
    /\ InitReplay
    /\ [][ReplayServedNext]_vars
    /\ WF_vars(SocketOpen)
    /\ WF_vars(SocketMessage)
    /\ WF_vars(ServerHandle)

\* files of N valid entries, one per line, the last line break optional
ValidLines ==
    {Text(doc) : doc \in {d \in WireDocs :
        assertValid(JsonParse(d).kind, JsonParse(d).payload).result = "ok"}}

RECURSIVE JoinLines(_)
JoinLines(ls) ==
    IF ls = << >> THEN << >>
    ELSE IF Len(ls) = 1 THEN <<ls[1]>>
    ELSE <<ls[1], NL>> \o JoinLines(Tail(ls))

ValidFiles ==
    {[exists |-> TRUE, content |-> JoinLines(ls) \o tail] :
        ls \in SeqsUpTo(ValidLines, MaxFrames), tail \in {<< >>, <<NL>>}}

InitEndToEnd ==
    /\ BufferIdle /\ JournalIdle /\ ReadIdle /\ ReplayIdle /\ ServerIdle
    /\ OtherIdle
    /\ file \in ValidFiles

SpecEndToEnd ==
    /\ InitEndToEnd
    /\ [][EndToEndNext]_vars
    /\ WF_vars(ReplayMain)
    /\ WF_vars(SocketOpen)
    /\ WF_vars(SocketMessage)
    /\ WF_vars(ServerHandle)

\* the ingress server with arbitrary clients on its connections
InitIngress ==
    /\ BufferIdle /\ JournalIdle /\ ReadIdle /\ ReplayIdle /\ ServerIdle
    /\ OtherIdle
    /\ file = Absent

SpecIngress == InitIngress /\ [][IngressNext]_vars

\* assertValid on any kind and payload
InitValidator ==
    /\ BufferIdle /\ JournalIdle /\ ReadIdle /\ ReplayIdle /\ ServerIdle
    /\ OtherIdle
    /\ file = Absent

SpecValidator == InitValidator /\ [][ValidatorNext]_vars

\* a buffer of any capacity, its samples as objects the caller can reach
InitAlias ==
    /\ BufferInit /\ JournalInit /\ ReadIdle /\ ReplayIdle /\ ServerIdle
    /\ OtherIdle

SpecAlias == InitAlias /\ [][AliasNext]_vars

\* before new IMURingBuffer(...) is evaluated: no buffer object
InitConstruct ==
    /\ capacity = 0
    /\ buffer = << >>
    /\ bcall = NoBCall
    /\ attempted = << >>
    /\ pushed = << >>
    /\ everCleared = FALSE
    /\ ops = 0
    /\ JournalInit /\ ReadIdle /\ ReplayIdle /\ ServerIdle
    /\ OtherIdle

SpecConstruct == InitConstruct /\ [][ConstructNext]_vars

\* before new SignalJournal(logPath) is evaluated, on any disk: the log
\* file there or not, and its directory there whenever the file is
InitJournalFs ==
    /\ BufferIdle /\ JournalIdle /\ ReadIdle /\ ReplayIdle /\ ServerIdle
    /\ ValidatorIdle /\ AliasIdle /\ LaterIdle
    /\ ctor = NoCtor
    /\ file \in PriorFiles
    /\ dirExists \in BOOLEAN
    /\ existsSync(file) => dirExists
    /\ jctor = "none"

SpecJournalFs == InitJournalFs /\ [][JournalFsNext]_vars

\* the server module loaded under any PORT, then startServer
InitStartup ==
    /\ BufferIdle /\ JournalIdle /\ ReadIdle /\ ReplayIdle /\ ServerIdle
    /\ ValidatorIdle /\ AliasIdle
    /\ ctor = NoCtor
    /\ dirExists = TRUE
    /\ jctor = "constructed"
    /\ file = Absent
    /\ env \in EnvValues
    /\ startup = NoStartup
    /\ jinst = NoInst
    /\ r2 = NoR2

SpecStartup == InitStartup /\ [][StartupNext]_vars

\* two journals constructed on one path, the log file not there yet
InitTwoJournals == Init /\ capacity = 1

SpecTwoJournals == InitTwoJournals /\ [][TwoJournalsNext]_vars

\* two sendFrames calls, each on any frame list, against the ingress server
InitTwoReplays ==
    /\ BufferIdle /\ JournalIdle /\ ReadIdle /\ ServerIdle
    /\ ValidatorIdle /\ AliasIdle /\ StartupIdle
    /\ ctor = NoCtor
    /\ dirExists = TRUE
    /\ jctor = "constructed"
    /\ jinst = NoInst
    /\ file = Absent
    /\ \E fr \in SeqsUpTo(ConcurrentFrames, MaxConcurrentFrames) : SendFramesCalled(fr)
    /\ \E fr \in SeqsUpTo(ConcurrentFrames, MaxConcurrentFrames) : SendFramesCalled2(fr)

SpecTwoReplays == InitTwoReplays /\ [][TwoReplaysNext]_vars

\* ------------------------------------------------------------------------
\* Properties of IMURingBuffer (checked under SpecBuffer)
\* ------------------------------------------------------------------------
\* every sample's ts is <= the next one's, as JavaScript compares numbers
NonDecreasing(s) == \A i \in 1..(Len(s) - 1) : Le(s[i].ts, s[i + 1].ts)

\* the last n elements of s
LastN(s, n) == SubSeq(s, Len(s) - n + 1, Len(s))

\* a buffer call was just made
BufferCalled == ops' = ops + 1

\* C1: after n >= 1 pushes with non-decreasing ts into a fresh buffer of
\* capacity c, snapshot() has length min(n, c) and its last element is the
\* sample pushed last.
C1_SnapshotLengthAndLast ==
    (~everCleared /\ Len(attempted) >= 1 /\ NonDecreasing(attempted)) =>
        LET snap == IMURingBuffer_snapshot(buffer)
        IN  /\ Len(snap) = Min(Len(attempted), capacity)
            /\ snap[Len(snap)] = attempted[Len(attempted)]

C1_Witness ==
    /\ ~everCleared
    /\ NonDecreasing(attempted)
    /\ Len(attempted) > capacity
    /\ capacity > 1

\* C2: eviction is strict FIFO. snapshot() is always the last
\* min(n, capacity) samples pushed successfully since construction or the
\* last clear(), in push order; a successful push into a full buffer removes
\* the head only, and one into a buffer that is not full removes nothing.
C2_StrictFifo ==
    /\ [](IMURingBuffer_snapshot(buffer)
            = LastN(pushed, Min(Len(pushed), capacity)))
    /\ [][(BufferCalled /\ bcall'.op = "push" /\ bcall'.result = "ok") =>
            buffer' = IF Len(buffer) = capacity
                      THEN Append(Shift(buffer), bcall'.arg)
                      ELSE Append(buffer, bcall'.arg)]_vars

C2_Witness ==
    /\ bcall.op = "push"
    /\ bcall.result = "ok"
    /\ Len(pushed) > capacity
    /\ capacity > 1

\* C3: a push whose ts is strictly less than the current tail's ts fails
\* with an error and leaves the buffer as it was: snapshot() and latest()
\* return what they returned before.
C3_OutOfOrderPushRejected ==
    [][(/\ BufferCalled
        /\ bcall'.op = "push"
        /\ Len(buffer) > 0
        /\ Lt(bcall'.arg.ts, buffer[Len(buffer)].ts)) =>
            /\ bcall'.result = "error"
            /\ IMURingBuffer_snapshot(buffer') = IMURingBuffer_snapshot(buffer)
            /\ IMURingBuffer_latest(buffer') = IMURingBuffer_latest(buffer)]_vars

C3_Witness ==
    /\ bcall.op = "push"
    /\ bcall.result = "error"
    /\ Len(buffer) = capacity
    /\ Lt(bcall.arg.ts, buffer[Len(buffer)].ts)

\* C4: whatever calls are made (push that succeeds or fails, snapshot,
\* latest, clear), the buffer never holds more samples than its capacity.
C4_AtMostCapacity == Len(buffer) <= capacity

C4_Witness ==
    /\ Len(buffer) = capacity
    /\ Len(pushed) > capacity
    /\ Len(attempted) > Len(pushed)

\* C5: whatever push and clear calls are made, the samples held are in
\* non-decreasing ts order from head to tail: no sample is followed, anywhere
\* later in the buffer, by one with a strictly smaller ts.
C5_SortedByTs ==
    \A i \in 1..Len(buffer) : \A j \in i..Len(buffer) :
        ~Lt(buffer[j].ts, buffer[i].ts)

\* ------------------------------------------------------------------------
\* Properties of SignalJournal (checked under SpecJournal)
\* ------------------------------------------------------------------------
\* a journal call was just made
JournalCalled == jops' = jops + 1

\* the entry fails validation: its kind is unknown or its payload is
\* invalid for its kind
FailsValidation(entry) ==
    \/ validator(entry.kind).result = "error"
    \/ ~SchemaValid(entry.kind, entry.payload)

\* C6: an append that fails validation throws and never writes: the file is
\* exactly as before, and a file that did not exist is not created.
C6_InvalidAppendNeverWrites ==
    [][(JournalCalled /\ jcall'.op = "append" /\ FailsValidation(jcall'.arg)) =>
            /\ jcall'.result = "error"
            /\ file' = file]_vars

C6_Witness ==
    /\ jcall.op = "append"
    /\ jcall.result = "error"
    /\ jcall.arg.kind = "event.v1"
    /\ jcall.arg.payload.zoom = JsUndefined
    /\ ~existsSync(file)

\* C7: round trip. Right after a successful append(entry), readAll() returns
\* a sequence whose last element equals entry.
C7_RoundTrip ==
    (jcall.op = "append" /\ jcall.result = "ok") =>
        LET r == SignalJournal_readAll(file)
        IN  /\ r.result = "ok"
            /\ Len(r.entries) >= 1
            /\ r.entries[Len(r.entries)] = jcall.arg

\* C8: append-only. After the successful appends e1..ek since the last
\* clear (or since the file was absent), readAll() returns exactly
\* <<e1, ..., ek>>, in append order.
C8_AppendOnly ==
    LET r == SignalJournal_readAll(file)
    IN  /\ r.result = "ok"
        /\ r.entries = appended

\* C9: after clear(), from any journal state, readAll() returns the empty
\* sequence and the file does not exist; clear() without a file does not
\* fail and changes nothing.
C9_ClearRemovesFile ==
    (jcall.op = "clear") =>
        /\ jcall.result = "ok"
        /\ ~existsSync(file)
        /\ SignalJournal_readAll(file) = [result |-> "ok", entries |-> << >>]
        /\ (~existsSync(jcall.before) => file = jcall.before)

C9_Witness ==
    /\ jcall.op = "clear"
    /\ existsSync(jcall.before)
    /\ Len(jcall.before.content) >= 4

\* C10: starting from an absent file, every entry the file holds (every
\* entry readAll returns) validates against the schema its kind names.
C10_StoredEntriesValid ==
    LET r == SignalJournal_readAll(file)
    IN  /\ r.result = "ok"
        /\ \A i \in 1..Len(r.entries) : ~FailsValidation(r.entries[i])

\* ------------------------------------------------------------------------
\* Properties of sendFrames
\* ------------------------------------------------------------------------
\* the texts of the frames, one per frame, in the order of the list
FrameTexts == [i \in 1..Len(frames) |-> Text(JsonStringify(frames[i]))]

\* C11: whatever the frame list, the empty one included, against an endpoint
\* that answers every frame it receives with one message and reports no
\* error, sendFrames eventually closes the connection and resolves.
\* (SpecReplayServed)
C11_EventuallyResolves ==
    <>(outcome = "resolved" /\ sock = "closing")

\* C12: sendFrames never resolves early. When it has resolved, the
\* connection was opened, every frame was passed to socket.send, and at
\* least as many messages as frames were received. (SpecReplay)
C12_NeverResolvesEarly ==
    (outcome = "resolved") =>
        /\ opens >= 1
        /\ sent = FrameTexts
        /\ acks >= Len(frames)

C12_Witness ==
    /\ outcome = "resolved"
    /\ Len(frames) >= 2
    /\ sock = "closing"

\* C13: nothing is sent before the connection is open; the open event sends
\* every frame exactly once, in list order, in one go: no acknowledgement is
\* awaited between two frames and nothing is sent later. (SpecReplay)
C13_SendsAllInOrderOnOpen ==
    /\ [](opens = 0 => sent = << >>)
    /\ [](opens >= 1 => sent = FrameTexts)
    /\ [][sent' # sent =>
            /\ sock = "connecting" /\ sock' = "open"
            /\ sent = << >>
            /\ acks = 0 /\ acks' = 0]_vars

C13_Witness ==
    /\ opens = 1
    /\ Len(frames) >= 2
    /\ frames[1] # frames[2]
    /\ sent = FrameTexts
    /\ acks = 0

\* C14: an error the connection reports while sendFrames is pending (before
\* open, after open, after some acknowledgements) rejects it with that
\* error; there is no retry: no other connection is ever created and no
\* frame is sent again, and the rejection stands. (SpecReplay)
C14_ErrorRejectsWithoutRetry ==
    /\ [][(reported' # reported /\ outcome = "pending") =>
            /\ outcome' = "rejected"
            /\ rerr' = reported'[Len(reported')]
            /\ sent' = sent]_vars
    /\ [](connections = 1)
    /\ [][outcome = "rejected" =>
            (outcome' = "rejected" /\ rerr' = rerr /\ sent' = sent)]_vars

C14_Witness ==
    /\ outcome = "rejected"
    /\ rerr = "ECONNRESET"
    /\ acks >= 1
    /\ acks < Len(frames)

\* ------------------------------------------------------------------------
\* Properties of readFrames (SpecReadFrames)
\* ------------------------------------------------------------------------
\* the non-empty lines of a file
LinesOf(f) == FilterNonEmpty(SplitLines(f.content, << >>))

\* the line is not JSON, names an unknown kind, or fails validation
BadLine(line) ==
    \/ ~LineParses(line)
    \/ FailsValidation(JsonParse(line[1].doc))

\* C15: readFrames is fail-fast. If some non-empty line is not JSON, names
\* an unknown kind or fails validation, the call raises and returns no
\* frame; if it returns, the frames are the lines of the file in file order
\* and each is valid for its kind.
C15_ReadFramesFailFast ==
    (rcall.op = "readFrames" /\ existsSync(rcall.fileSeen)) =>
        LET lines == LinesOf(rcall.fileSeen)
        IN  IF \E i \in 1..Len(lines) : BadLine(lines[i])
            THEN /\ rcall.result = "error"
                 /\ rcall.frames = << >>
            ELSE /\ rcall.result = "ok"
                 /\ Len(rcall.frames) = Len(lines)
                 /\ \A i \in 1..Len(lines) :
                        /\ rcall.frames[i] = JsonParse(lines[i][1].doc)
                        /\ ~FailsValidation(rcall.frames[i])

C15_Witness ==
    /\ rcall.op = "readFrames"
    /\ rcall.result = "error"
    /\ LET lines == LinesOf(rcall.fileSeen)
       IN  /\ Len(lines) = 2
           /\ ~BadLine(lines[1])
           /\ LineParses(lines[2])
           /\ BadLine(lines[2])

\* C16: readFrames never modifies the file, and a second call on the file
\* as the first call saw it has the outcome of the first: the same frames,
\* or the same failure.
C16_ReadFramesIdempotent ==
    [][(rops' = rops + 1) =>
            /\ file' = file
            /\ (rcall.op = "readFrames" /\ rcall.fileSeen = file) =>
                    /\ rcall'.result = rcall.result
                    /\ rcall'.error = rcall.error
                    /\ rcall'.frames = rcall.frames]_vars

C16_Witness ==
    /\ rops = 2
    /\ rcall.result = "ok"
    /\ Len(rcall.frames) >= 2
    /\ rcall.fileSeen = file

\* ------------------------------------------------------------------------
\* Properties of the replay against the ingress server (SpecEndToEnd)
\* ------------------------------------------------------------------------
\* C17: for a file of N valid entries, one per line, readFrames followed by
\* sendFrames makes the ingress server receive exactly N messages, in file
\* order, each answered with status ok, and the replay resolves.
C17_EndToEndReplay ==
    <>(/\ outcome = "resolved"
       /\ Len(received[ReplayConn]) = Len(LinesOf(file))
       /\ \A i \in 1..Len(LinesOf(file)) :
            /\ received[ReplayConn][i] = LinesOf(file)[i][1]
            /\ responses[ReplayConn][i].status = "ok")

\* ------------------------------------------------------------------------
\* Properties of the ingress server (SpecIngress)
\* ------------------------------------------------------------------------
\* the text is JSON and its payload passes validation for its kind
ValidMessage(text) ==
    text.tok = "json" /\ ~FailsValidation(JsonParse(text.doc))

C19_BadMessageKeepsSession ==
    \A c \in Conns :
        /\ connState[c] = "open"
        /\ (inbox[c] # << >> => ENABLED ServerHandleOn(c))
        /\ \A i, j \in 1..Len(responses[c]) :
            (i < j /\ responses[c][i].status = "error" /\ ValidMessage(received[c][j]))
                => responses[c][j].status = "ok"

C19_Witness ==
    \E c \in Conns : \E i, j \in 1..Len(responses[c]) :
        /\ i < j
        /\ responses[c][i].status = "error"
        /\ ValidMessage(received[c][j])
        /\ responses[c][j].status = "ok"

\* C20: on one connection the messages are handled in arrival order, each
\* answered before the next is handled: the i-th response sent is the
\* response to the i-th message that arrived.
C20_ResponsesInArrivalOrder ==
    \A c \in Conns :
        /\ Len(responses[c]) = Len(received[c])
        /\ Len(received[c]) <= Len(arrived[c])
        /\ \A i \in 1..Len(responses[c]) :
            /\ received[c][i] = arrived[c][i]
            /\ responses[c][i] = onMessage(arrived[c][i]).response

C20_Witness ==
    \E c \in Conns :
        /\ Len(responses[c]) = 2
        /\ Len(arrived[c]) = 3
        /\ responses[c][1] # responses[c][2]
        /\ arrived[c][3] # arrived[c][2]

\* C21: connections are independent and the server keeps no state between
\* messages. Handling a message of one connection sends its response on
\* that connection only and leaves every other connection as it was, and a
\* response is a function of its message alone: equal messages get equal
\* responses on whatever connection, and after whatever traffic and error
\* responses, they were handled.
C21_ConnectionsIndependent ==
    /\ [](\A c, d \in Conns :
            /\ Len(responses[c]) = Len(received[c])
            /\ \A i \in 1..Len(received[c]) : \A j \in 1..Len(received[d]) :
                    received[c][i] = received[d][j]
                        => responses[c][i] = responses[d][j])
    /\ [][\A c \in Conns : received'[c] # received[c] =>
            /\ Len(responses'[c]) = Len(responses[c]) + 1
            /\ outbox'[c] = Append(outbox[c], responses'[c][Len(responses'[c])])
            /\ \A d \in Conns \ {c} :
                    /\ outbox'[d] = outbox[d]
                    /\ responses'[d] = responses[d]
                    /\ inbox'[d] = inbox[d]
                    /\ received'[d] = received[d]
                    /\ connState'[d] = connState[d]]_vars

C21_Witness ==
    /\ Len(received["c1"]) = 1
    /\ Len(received["c2"]) = 1
    /\ responses["c1"][1].status = "error"
    /\ responses["c2"][1].status = "ok"
    /\ inbox["c1"] # << >>
    /\ Head(inbox["c1"]) = received["c2"][1]

\* ------------------------------------------------------------------------
\* Properties of the validator (SpecValidator)
\* ------------------------------------------------------------------------
KnownKinds == {"event.v1", "agent_frame.v1"}

\* the elements of a sequence
Range(s) == {s[i] : i \in 1..Len(s)}

\* C22: for a kind that is not known, validator raises, and assertValid
\* raises the 'Unknown envelope kind' error for every payload: the call is
\* never accepted, and it carries no item of a schema check, whether or
\* not the payload would pass the schema of a known kind.
C22_UnknownKindRejected ==
    /\ \A kind \in Kinds \ KnownKinds : validator(kind).result = "error"
    /\ (vcall.kind # "none" /\ vcall.kind \notin KnownKinds) =>
            /\ vcall.result = "error"
            /\ vcall.error = "Unknown envelope kind"
            /\ vcall.error # "validation failed"
            /\ vcall.items = << >>

C22_Witness ==
    /\ vcall.kind = "other.v9"
    /\ vcall.result = "error"
    /\ SchemaErrors("event.v1", vcall.payload) = << >>

\* C23: for a known kind, assertValid raises exactly when the payload
\* violates the kind's schema, never with the unknown-kind error, and the
\* error it raises carries the item of every violation: a payload without
\* ZOOM_DELTA and without INPUT_TRIGGER is reported with both.
C23_AssertValidIffViolation ==
    vcall.kind \in KnownKinds =>
        LET violations == Range(SchemaErrors(vcall.kind, vcall.payload))
        IN  /\ (vcall.result = "error") <=> (violations # {})
            /\ vcall.error # "Unknown envelope kind"
            /\ Range(vcall.items) = violations
            /\ vcall.payload.zoom.t = "undefined" => vcall.result = "error"
            /\ vcall.payload.trigger.t = "undefined" => vcall.result = "error"
            /\ (vcall.payload.shape = "EventEnvelope" /\ vcall.kind = "event.v1"
                    /\ vcall.payload.zoom.t = "undefined"
                    /\ vcall.payload.trigger.t = "undefined") =>
                  Cardinality(Range(vcall.items)) = 2

C23_Witness ==
    /\ vcall.kind = "event.v1"
    /\ vcall.payload.shape = "EventEnvelope"
    /\ vcall.payload.zoom.t = "undefined"
    /\ vcall.payload.trigger.t = "undefined"
    /\ Len(vcall.items) = 2

\* ------------------------------------------------------------------------
\* More properties of IMURingBuffer (SpecBuffer)
\* ------------------------------------------------------------------------
\* C25: latest() returns the sample of the last successful push when one
\* was made since construction and since the last clear(), returns
\* undefined otherwise, and leaves the buffer as it was.
C25_LatestIsLastPushed ==
    /\ [](bcall.op = "latest" =>
            bcall.ret = IF pushed = << >> THEN NoSample
                        ELSE pushed[Len(pushed)])
    /\ [][(BufferCalled /\ bcall'.op = "latest") =>
            /\ buffer' = buffer
            /\ capacity' = capacity]_vars

C25_Witness ==
    /\ bcall.op = "latest"
    /\ Len(buffer) >= 2
    /\ bcall.ret = pushed[Len(pushed)]
    /\ bcall.ret # buffer[1]
    /\ attempted[Len(attempted)] # bcall.ret

\* C26: clear() leaves the buffer empty, and the push that follows it
\* succeeds whatever its ts, a ts below every ts pushed before included,
\* and leaves the buffer holding that sample alone.
C26_ClearThenPushAnyTs ==
    /\ [](bcall.op = "clear" => buffer = << >>)
    /\ [][(BufferCalled /\ bcall.op = "clear" /\ bcall'.op = "push") =>
            /\ bcall'.result = "ok"
            /\ buffer' = <<bcall'.arg>>]_vars

C26_Witness ==
    /\ bcall.op = "push"
    /\ bcall.result = "ok"
    /\ everCleared
    /\ pushed = <<bcall.arg>>
    /\ buffer = <<bcall.arg>>
    /\ Len(attempted) = 3
    /\ \A i \in 1..2 : Lt(bcall.arg.ts, attempted[i].ts)

\* ------------------------------------------------------------------------
\* Properties of the constructor of IMURingBuffer (SpecConstruct)
\* ------------------------------------------------------------------------
\* C27: new IMURingBuffer(capacity) with capacity <= 0 throws and leaves
\* no buffer to call; with a positive integer capacity it succeeds, and the
\* buffer has that capacity and is empty until it is pushed to.
C27_ConstructorChecksCapacity ==
    (ctor.state # "none" /\ ctor.arg.given) =>
        IF ctor.arg.v <= 0
        THEN /\ ctor.state = "error"
             /\ capacity = 0
             /\ ops = 0
             /\ bcall = NoBCall
        ELSE /\ ctor.state = "ok"
             /\ capacity = ctor.arg.v
             /\ (ops = 0 => buffer = << >>)
             /\ (attempted = << >> => IMURingBuffer_latest(buffer) = NoSample)

C27_Witness ==
    /\ ctor.state = "error"
    /\ ctor.arg.given
    /\ ctor.arg.v = 0

\* ------------------------------------------------------------------------
\* Properties of SignalJournal on any disk (SpecJournalFs)
\* ------------------------------------------------------------------------
\* C28: constructing a SignalJournal leaves the log file as it was, there
\* or not; readAll() on a journal whose file is not there returns the empty
\* sequence without raising, as it does for an empty file, and the file is
\* still not there afterwards.
C28_UnwrittenJournalIsEmpty ==
    /\ [](/\ (jcall.op = "readAll" /\ ~existsSync(jcall.before)) =>
                /\ jcall.result = "ok"
                /\ jcall.ret = << >>
                /\ ~existsSync(file)
           /\ SignalJournal_readAll(Absent)
                = SignalJournal_readAll([exists |-> TRUE, content |-> << >>]))
    /\ [][(jctor = "none" /\ jctor' = "constructed") =>
            /\ file' = file
            /\ dirExists']_vars

C28_Witness ==
    /\ jctor = "constructed"
    /\ jops = 1
    /\ jcall.op = "readAll"
    /\ ~existsSync(jcall.before)
    /\ jcall.ret = << >>
    /\ ~existsSync(file)

\* C29: when a non-empty line of the file is not parseable JSON, readAll()
\* raises and returns no entry, wherever the line is and whatever the other
\* lines are, and the file is left as it was.
C29_ReadAllFailFast ==
    (jcall.op = "readAll" /\ existsSync(jcall.before)
        /\ \E i \in 1..Len(LinesOf(jcall.before)) :
                ~LineParses(LinesOf(jcall.before)[i])) =>
        /\ jcall.result = "error"
        /\ jcall.ret = << >>
        /\ file = jcall.before

C29_Witness ==
    /\ jcall.op = "readAll"
    /\ jcall.result = "error"
    /\ file = jcall.before
    /\ \E i, j \in 1..Len(LinesOf(jcall.before)) :
            /\ i < j
            /\ LineParses(LinesOf(jcall.before)[i])
            /\ ~LineParses(LinesOf(jcall.before)[j])

\* ------------------------------------------------------------------------
\* The exits of sendFrames (SpecReplay)
\* ------------------------------------------------------------------------
\* C30: sendFrames has two exits and no timeout. The promise leaves pending
\* only in a "message" event that brings the acknowledgements to the
\* number of frames or above, which resolves it, or in an "error" event,
\* which rejects it with that error; as long as neither has happened it is
\* pending, an endpoint that never answers or closes the connection
\* included.
C30_TwoExitsNoTimeout ==
    /\ [](outcome = "resolved" => (acks >= 1 /\ acks >= Len(frames)))
    /\ [](outcome = "rejected" => (reported # << >> /\ rerr = reported[1]))
    /\ []((reported = << >> /\ (acks = 0 \/ acks < Len(frames)))
            => outcome = "pending")
    /\ [][outcome' # outcome =>
            /\ outcome = "pending"
            /\ \/ /\ outcome' = "resolved"
                  /\ acks' = acks + 1
                  /\ acks' >= Len(frames)
                  /\ reported' = reported
               \/ /\ outcome' = "rejected"
                  /\ Len(reported') = Len(reported) + 1
                  /\ acks' = acks]_vars

C30_Witness ==
    /\ sock = "closed"
    /\ outcome = "pending"
    /\ opens = 1
    /\ Len(sent) >= 2
    /\ acks = 1
    /\ reported = << >>

\* ------------------------------------------------------------------------
\* Properties of snapshot() as a copy (SpecAlias)
\* ------------------------------------------------------------------------
\* C24: the array snapshot() returned is not a live view. No change the
\* caller makes to it (adding, removing, reordering or replacing elements,
\* changing a field of a sample in it) changes what snapshot() and
\* latest() return afterwards, and no later push changes what the array
\* returned earlier shows.
C24_SnapshotIsACopy ==
    [][(aops' = aops + 1) =>
        /\ (acall' = "mutate") =>
                /\ Deref(IMURingBuffer_snapshot(refs))' = Deref(IMURingBuffer_snapshot(refs))
                /\ IMURingBuffer_latest(Deref(refs))' = IMURingBuffer_latest(Deref(refs))
        /\ (acall' = "push") => Deref(returned)' = Deref(returned)]_vars

\* ------------------------------------------------------------------------
\* Ties in IMURingBuffer (SpecBuffer)
\* ------------------------------------------------------------------------
\* C32: a push whose ts equals the tail's ts succeeds: the sample is put
\* after the tail, and the head is evicted when the buffer was full. A
\* push is rejected only when its ts is strictly below the tail's.
C32_TiesAllowed ==
    [][(BufferCalled /\ bcall'.op = "push" /\ buffer # << >>) =>
        LET tail == buffer[Len(buffer)]
            sample == bcall'.arg
        IN  /\ (~sample.ts.nan /\ sample.ts = tail.ts) =>
                    /\ bcall'.result = "ok"
                    /\ buffer' = (IF Len(buffer) = capacity
                                   THEN Shift(buffer) ELSE buffer) \o <<sample>>
            /\ (bcall'.result = "error") =>
                    (~sample.ts.nan /\ ~tail.ts.nan /\ sample.ts.v < tail.ts.v)]_vars

C32_Witness ==
    /\ bcall.op = "push"
    /\ bcall.result = "ok"
    /\ Len(buffer) = capacity
    /\ Len(pushed) = capacity + 1
    /\ capacity >= 2
    /\ ~bcall.arg.ts.nan
    /\ buffer[Len(buffer)] = bcall.arg
    /\ buffer[Len(buffer) - 1].ts = bcall.arg.ts
    /\ buffer[Len(buffer) - 1].quaternion # bcall.arg.quaternion

\* ------------------------------------------------------------------------
\* SignalJournal.append against assertValid (SpecJournal)
\* ------------------------------------------------------------------------
\* C33: append(entry) accepts exactly the entries assertValid(entry.kind,
\* entry.payload) accepts. It writes a line if and only if assertValid
\* does not raise, and when it rejects it throws the message assertValid
\* raises for that kind and payload.
C33_AppendAgreesWithAssertValid ==
    jcall.op = "append" =>
        LET a == assertValid(jcall.arg.kind, jcall.arg.payload)
        IN  /\ (jcall.result = "ok") <=> (a.result = "ok")
            /\ (file # jcall.before) <=> (a.result = "ok")
            /\ jcall.error = a.error
            /\ jcall.items = a.items

C33_Witness ==
    /\ jcall.op = "append"
    /\ jcall.result = "error"
    /\ jcall.items # << >>
    /\ existsSync(file)
    /\ file = jcall.before

\* C34: on a journal file that exists and holds only what successful
\* append calls wrote, readFrames returns without error the sequence of
\* entries readAll() returns, in the same order.
C34_ReadFramesAgreesWithReadAll ==
    existsSync(file) =>
        /\ SignalJournal_readAll(file).result = "ok"
        /\ readFrames(file).result = "ok"
        /\ readFrames(file).frames = SignalJournal_readAll(file).entries

\* ------------------------------------------------------------------------
\* Two journals on one path (SpecTwoJournals)
\* ------------------------------------------------------------------------
\* the entries the lines of a file parse to
ParsedLines(f) ==
    [i \in 1..Len(LinesOf(f)) |-> JsonParse(LinesOf(f)[i][1].doc)]

\* C35: the journal keeps no cache. Every readAll() returns what the file
\* holds when the call is made; after a successful append through the
\* other instance the next readAll() ends with that entry as it was
\* written, and after a clear through the other instance it is empty.
C35_NoCacheAcrossInstances ==
    /\ []((jcall.op = "readAll") =>
            (jcall.result = "ok" /\ jcall.ret = ParsedLines(file)))
    /\ [][(jops' = jops + 1 /\ jcall'.op = "readAll"
                /\ jinst.caller # "none" /\ jinst'.caller # jinst.caller) =>
            /\ (jcall.op = "append" /\ jcall.result = "ok") =>
                    /\ Len(jcall'.ret) = Len(ParsedLines(jcall.before)) + 1
                    /\ jcall'.ret[Len(jcall'.ret)]
                            = JsonParse(JsonStringify(jcall.arg))
            /\ (jcall.op = "clear") => jcall'.ret = << >>]_vars

C35_Witness ==
    /\ jcall.op = "readAll"
    /\ jinst.caller = "a"
    /\ jinst.reads["a"] = 2
    /\ jinst.writes["a"] = 0
    /\ jinst.writes["b"] = 1
    /\ Len(jcall.ret) = 1

\* ------------------------------------------------------------------------
\* Messages without a known kind at the ingress server (SpecIngress)
\* ------------------------------------------------------------------------
\* the text is JSON, and what it parses to has no kind or a kind that is
\* none of the two known ones
JsonWithoutKnownKind(text) ==
    \/ text.tok \in {"json-null", "json-number"}
    \/ text.tok = "json" /\ text.doc.kind \notin KnownKinds

\* C36: a message that is JSON but has no kind, or a kind that is not
\* known, or is no object at all (null, a number), is answered with one
\* response of status error; the handler answers instead of throwing, and
\* the connection stays open.
C36_UnknownKindAnsweredWithError ==
    \A c \in Conns :
        /\ connState[c] = "open"
        /\ Len(responses[c]) = Len(received[c])
        /\ \A i \in 1..Len(received[c]) :
                JsonWithoutKnownKind(received[c][i]) =>
                    /\ responses[c][i].status = "error"
                    /\ responses[c][i].error \in {"TypeError", "Unknown envelope kind"}
                    /\ responses[c][i] = errorResponse(responses[c][i].error)

C36_Witness ==
    \E c \in Conns : \E i, j \in 1..Len(received[c]) :
        /\ received[c][i] = JsonNullText
        /\ received[c][j] = NoKindText
        /\ responses[c][i].status = "error"
        /\ responses[c][j].status = "error"
        /\ connState[c] = "open"

\* ------------------------------------------------------------------------
\* What sendFrames counts as an acknowledgement (SpecReplay)
\* ------------------------------------------------------------------------
\* the messages of the endpoint that were delivered to sendFrames
Delivered == envMsgs - Len(outbox[ReplayConn])

\* C37: every message delivered to sendFrames counts as one
\* acknowledgement, whatever it says (an ok response, an error response,
\* the same response again); once the N frames are sent, N messages of
\* any content, with no error reported, have resolved the call.
C37_AnyMessagesResolve ==
    /\ acks = Delivered
    /\ (opens >= 1 /\ reported = << >> /\ acks >= Len(frames))
            => outcome = "resolved"

\* ------------------------------------------------------------------------
\* The outcome of sendFrames is decided once (SpecReplay)
\* ------------------------------------------------------------------------
\* C38: the outcome of a sendFrames call is decided at most once. Once it
\* has resolved, no later message and no later connection error makes it a
\* failure; once it has rejected, no later message makes it a success, and
\* the error it rejected with stays the same.
C38_OutcomeDecidedOnce ==
    /\ [][outcome = "resolved" => outcome' = "resolved"]_vars
    /\ [][outcome = "rejected" => (outcome' = "rejected" /\ rerr' = rerr)]_vars
    /\ [](outcome = "resolved" => rerr = "none")
    /\ [](outcome \in {"pending", "resolved", "rejected"})

\* the call rejected, and afterwards as many messages as it has frames
\* were delivered to it
C38_Witness ==
    /\ outcome = "rejected"
    /\ frames # << >>
    /\ acks >= Len(frames)
    /\ sock = "errored"

\* ------------------------------------------------------------------------
\* Concurrent replays over separate connections (SpecTwoReplays)
\* ------------------------------------------------------------------------
\* the responses the server sent on connection c that were delivered
DeliveredOn(c) == Len(responses[c]) - Len(outbox[c])

\* the responses on connection c answer the texts sent on it, one each
AnswersOwn(c, texts) ==
    /\ Len(responses[c]) <= Len(texts)
    /\ \A i \in 1..Len(responses[c]) : responses[c][i] = onMessage(texts[i]).response

\* C39: two sendFrames calls interleaved against the same server do not
\* interfere. The count of each call is the number of responses delivered
\* on its own connection, those responses answer its own frames, and each
\* call, once its connection is open, has resolved exactly when its own
\* count has reached its own number of frames.
C39_ConcurrentReplaysIndependent ==
    /\ acks = DeliveredOn(ReplayConn)
    /\ r2.acks = DeliveredOn(ReplayConn2)
    /\ AnswersOwn(ReplayConn, sent)
    /\ AnswersOwn(ReplayConn2, r2.sent)
    /\ opens >= 1 => (outcome = "resolved" <=> acks >= Len(frames))
    /\ r2.opens >= 1 => (r2.outcome = "resolved" <=> r2.acks >= Len(r2.frames))

\* ------------------------------------------------------------------------
\* Properties of the listen port (SpecStartup)
\* ------------------------------------------------------------------------
\* the text is a decimal number: digits and nothing else
ValidNumber(chars) ==
    chars # << >> /\ \A i \in 1..Len(chars) : chars[i].digit

\* the digits of a text that is a decimal number
DigitsOf(chars) == [i \in 1..Len(chars) |-> chars[i].v]

\* C31: the server listens on the port argument when one is given,
\* otherwise on the port PORT names, otherwise on 8080; when PORT is set to
\* a text that is not a number, startup fails: the server listens neither
\* on the default nor on the number a part of the text spells.
C31_ListenPort ==
    startup.called =>
        IF startup.arg.given
        THEN startup.result = "listening" /\ startup.port = Num(startup.arg.v)
        ELSE IF ~env.set
        THEN startup.result = "listening" /\ startup.port = Num(DefaultPort)
        ELSE IF ValidNumber(env.chars)
        THEN /\ startup.result = "listening"
             /\ startup.port = Num(DecimalValue(DigitsOf(env.chars)))
        ELSE startup.result = "error"

====
